---- MODULE Spec2Model ----
(***************************************************************************)
(* Behaviour-based AML detection engine: Store, BaselineEngine,            *)
(* PatternDetector, NetworkAnalyzer, EvidenceEngine, AlertGenerator and    *)
(* the AMLEngine pipeline.                                                 *)
(*                                                                         *)
(* Time is counted in clock ticks (TicksPerHour ticks to the hour);        *)
(* timestamps are instants on that clock and local time is UTC.  Amounts   *)
(* are integers; every comparison of a quotient in the source is done by   *)
(* cross-multiplication, so no rounding is introduced.  Every handler runs *)
(* to completion at one clock reading (the clock advances between calls).  *)
(***************************************************************************)
EXTENDS Integers, Sequences, FiniteSets, TLC

(* ------------------------------ bounds --------------------------------- *)
\* clock granularity
TicksPerHour == 2
\* number of transactions the pipeline ingests
MaxTx == 3
\* short clock steps allowed after a day boundary
MaxSubTicks == 1

Hour == TicksPerHour
Day == 24 * Hour
LongStep == 10 * Day
NowStart == 20 * Day
MaxNow == NowStart + LongStep + MaxSubTicks

Accounts == {"A", "B"}
Seeds == {0, 1}

\* the transactions submitted to the pipeline: transfers and self-transfers of
\* two sizes, stamped with the clock reading or back-dated by back ticks
TxInputs ==
    {[sender |-> "A", receiver |-> "B", amount |-> 100, back |-> 0],
     [sender |-> "B", receiver |-> "A", amount |-> 200, back |-> LongStep],
     [sender |-> "A", receiver |-> "A", amount |-> 100, back |-> 0],
     [sender |-> "A", receiver |-> "A", amount |-> 100, back |-> LongStep],
     [sender |-> "B", receiver |-> "A", amount |-> 0, back |-> 0]}

VARIABLES now, store, seed, last, twin

vars == <<now, store, seed, last, twin>>

(* ------------------------------ helpers -------------------------------- *)
Abs(x) == IF x < 0 THEN -x ELSE x

Max(x, y) == IF x > y THEN x ELSE y

Min(x, y) == IF x < y THEN x ELSE y

Range(s) == {s[i] : i \in 1..Len(s)}

RECURSIVE SumSeq(_)
SumSeq(s) == IF s = <<>> THEN 0 ELSE Head(s) + SumSeq(Tail(s))

RECURSIVE Concat(_)
Concat(ss) == IF ss = <<>> THEN <<>> ELSE Head(ss) \o Concat(Tail(ss))

\* n / d > p / q in real arithmetic, d # 0 and q > 0 (a JS quotient compared to a constant)
QuotGT(n, d, p, q) == IF d > 0 THEN n * q > p * d ELSE n * q < p * d

\* |x| / d < p / q as JS computes it: d = 0 gives NaN or Infinity (false), d < 0 a value <= 0 (true)
AbsQuotLT(x, d, p, q) ==
    IF d = 0 THEN FALSE
    ELSE IF d < 0 THEN TRUE
    ELSE Abs(x) * q < p * d

\* Array.prototype.sort((a, b) => a - b) on numbers
RECURSIVE Insert(_, _)
Insert(x, s) ==
    IF s = <<>> THEN <<x>>
    ELSE IF x < Head(s) THEN <<x>> \o s
    ELSE <<Head(s)>> \o Insert(x, Tail(s))

RECURSIVE SortAsc(_)
SortAsc(s) == IF s = <<>> THEN <<>> ELSE Insert(Head(s), SortAsc(Tail(s)))

MapAmount(txs) == [i \in 1..Len(txs) |-> txs[i].amount]

Touches(tx, accountId) == tx.sender = accountId \/ tx.receiver = accountId

AccountTxs(accountId, transactions) ==
    SelectSeq(transactions, LAMBDA tx : Touches(tx, accountId))

Inflows(accountId, transactions) ==
    SelectSeq(transactions, LAMBDA tx : tx.receiver = accountId)

Outflows(accountId, transactions) ==
    SelectSeq(transactions, LAMBDA tx : tx.sender = accountId)

\* new Date(y, m, d) of the current instant: local midnight
StartOfDay(t) == t - (t % Day)

\* Date.prototype.getHours
HourOf(t) == (t % Day) \div Hour

\* Date.prototype.toDateString: the civil date
DateOf(t) == t \div Day

(* ------------------------- Number: IEEE 754 doubles -------------------- *)
\* A positive double is m * 2^e with 2^52 <= m < 2^53.  The 53 bits of m are
\* kept as <<high, low>>, m = high * Word + low, low < Word.
Word == 268435456

Twice(x) == <<2 * x[1] + (2 * x[2]) \div Word, (2 * x[2]) % Word>>

PlusOne(x) == IF x[2] + 1 = Word THEN <<x[1] + 1, 0>> ELSE <<x[1], x[2] + 1>>

AtLeast(x, y) == x[1] > y[1] \/ (x[1] = y[1] /\ x[2] >= y[2])

Minus(x, y) ==
    IF x[2] >= y[2] THEN <<x[1] - y[1], x[2] - y[2]>>
    ELSE <<x[1] - y[1] - 1, x[2] - y[2] + Word>>

\* high part of the smallest 53-bit mantissa, 2^52 = HighOne * Word
HighOne == 16777216

RECURSIVE Normalized(_, _)
Normalized(m, e) ==
    IF m[1] >= HighOne THEN [m |-> m, e |-> e] ELSE Normalized(Twice(m), e - 1)

\* the double of an integer 0 < n < Word, which is exact
ToDouble(n) == Normalized(<<0, n>>, 0)

\* n more bits of the quotient by d: qr.q so far, qr.r the remainder so far
RECURSIVE QuotientBits(_, _, _), QuotientBit(_, _, _, _)
QuotientBits(n, qr, d) ==
    IF n = 0 THEN qr ELSE QuotientBit(n, qr.q, Twice(qr.r), d)

QuotientBit(n, q, r2, d) ==
    IF AtLeast(r2, d)
    THEN QuotientBits(n - 1, [q |-> PlusOne(Twice(q)), r |-> Minus(r2, d)], d)
    ELSE QuotientBits(n - 1, [q |-> Twice(q), r |-> r2], d)

RoundedUp(q, e) ==
    IF q[1] >= 2 * HighOne THEN [m |-> <<HighOne, 0>>, e |-> e + 1]
    ELSE [m |-> q, e |-> e]

\* round to nearest, ties to even
Rounded(qr, d, e) ==
    IF \/ (Twice(qr.r) # d /\ AtLeast(Twice(qr.r), d))
       \/ (Twice(qr.r) = d /\ qr.q[2] % 2 = 1)
    THEN RoundedUp(PlusOne(qr.q), e)
    ELSE [m |-> qr.q, e |-> e]

\* x / y on doubles
DoubleDiv(x, y) ==
    IF AtLeast(x.m, y.m)
    THEN Rounded(QuotientBits(52, [q |-> <<0, 1>>, r |-> Minus(x.m, y.m)], y.m),
                 y.m, x.e - y.e - 52)
    ELSE Rounded(QuotientBits(52, [q |-> <<0, 1>>, r |-> Minus(Twice(x.m), y.m)], y.m),
                 y.m, x.e - y.e - 53)

\* x > y on doubles
DoubleGT(x, y) == x.e > y.e \/ (x.e = y.e /\ x.m # y.m /\ AtLeast(x.m, y.m))

(* --------------------------- BaselineEngine ---------------------------- *)
getDefaultBaseline(accountId) ==
    [accountId |-> accountId,
     totalInflow |-> 0, totalOutflow |-> 0,
     uniqueSenders |-> 0, uniqueReceivers |-> 0,
     typicalAmountRange |-> <<0, 0>>,
     accountAge |-> 0,
     totalTransactions |-> 0]

\* Math.floor((Date.now() - first) / day) || 1
AccountAge(clock, firstTs) ==
    LET d == (clock - firstTs) \div Day IN IF d = 0 THEN 1 ELSE d

\* amounts[Math.floor(n * tenths / 10)] || 0 over the ascending amounts
Percentile(sorted, tenths) == sorted[((Len(sorted) * tenths) \div 10) + 1]

\* The averages of the source are the quotients total / accountAge; the record
\* keeps numerator and denominator (accountAge) and the comparisons below
\* evaluate the quotient.
calculateBaseline(accountId, allTransactions, clock) ==
    LET accountTxs == AccountTxs(accountId, allTransactions)
        firstTs == CHOOSE t \in {tx.timestamp : tx \in Range(accountTxs)} :
                       \A u \in {tx.timestamp : tx \in Range(accountTxs)} : t <= u
        inflows == Inflows(accountId, accountTxs)
        outflows == Outflows(accountId, accountTxs)
        amounts == SortAsc(MapAmount(accountTxs))
    IN  IF Len(accountTxs) = 0 THEN getDefaultBaseline(accountId)
        ELSE [accountId |-> accountId,
              totalInflow |-> SumSeq(MapAmount(inflows)),
              totalOutflow |-> SumSeq(MapAmount(outflows)),
              uniqueSenders |-> Cardinality({tx.sender : tx \in Range(inflows)}),
              uniqueReceivers |-> Cardinality({tx.receiver : tx \in Range(outflows)}),
              typicalAmountRange |-> <<Percentile(amounts, 1), Percentile(amounts, 9)>>,
              accountAge |-> AccountAge(clock, firstTs),
              totalTransactions |-> Len(accountTxs)]

\* baseline.avgDailyInflow > 0, avgDailyOutflow > 0, avgTxFrequency > 0, avgUniqueSenders > 0
AvgPositive(total, baseline) ==
    baseline.accountAge # 0 /\ QuotGT(total, baseline.accountAge, 0, 1)

\* checkDeviation against a baseline that leaves the checked outflow out
checkDeviationWithoutItself(transaction, baseline) ==
    LET age == baseline.accountAge
        out == baseline.totalOutflow - transaction.amount
        maxTypical == baseline.typicalAmountRange[2]
        ratioGT(k) == QuotGT(transaction.amount * age, out, k, 1)
        amountDev ==
            IF AvgPositive(out, baseline)
            THEN IF ratioGT(3)
                 THEN <<[type |-> "amount_deviation",
                         severity |-> IF ratioGT(5) THEN "high" ELSE "medium"]>>
                 ELSE <<>>
            ELSE IF transaction.amount > 0
                 THEN <<[type |-> "first_transaction", severity |-> "medium"]>>
                 ELSE <<>>
        rangeDev ==
            IF maxTypical > 0 /\ 2 * transaction.amount > 3 * maxTypical
            THEN <<[type |-> "range_deviation", severity |-> "medium"]>>
            ELSE <<>>
        deviations == amountDev \o rangeDev
    IN  [hasDeviation |-> Len(deviations) > 0, deviations |-> deviations]

\* the deviations checkDeviation pushes, in order
checkDeviation(transaction, baseline) ==
    LET age == baseline.accountAge
        out == baseline.totalOutflow
        maxTypical == baseline.typicalAmountRange[2]
        \* amount / (out / age) > k
        ratioGT(k) == QuotGT(transaction.amount * age, out, k, 1)
        amountDev ==
            IF AvgPositive(out, baseline)
            THEN IF ratioGT(3)
                 THEN <<[type |-> "amount_deviation",
                         severity |-> IF ratioGT(5) THEN "high" ELSE "medium"]>>
                 ELSE <<>>
            ELSE IF transaction.amount > 0
                 THEN <<[type |-> "first_transaction", severity |-> "medium"]>>
                 ELSE <<>>
        rangeDev ==
            IF maxTypical > 0 /\ 2 * transaction.amount > 3 * maxTypical
            THEN <<[type |-> "range_deviation", severity |-> "medium"]>>
            ELSE <<>>
        deviations == amountDev \o rangeDev
    IN  [hasDeviation |-> Len(deviations) > 0, deviations |-> deviations]

getRecentActivity(accountId, transactions, hoursBack, clock) ==
    SelectSeq(transactions,
              LAMBDA tx : Touches(tx, accountId) /\ tx.timestamp > clock - hoursBack * Hour)

(* --------------------------- PatternDetector --------------------------- *)
NotDetected == [detected |-> FALSE]

\* Pattern A: many-to-one within the recent activity handed in
\* detectSmurfing with the sender threshold one too low
detectSmurfingFiveSenders(accountId, recentTxs) ==
    LET inflows == Inflows(accountId, recentTxs)
        uniqueSenders == {tx.sender : tx \in Range(inflows)}
        amounts == MapAmount(inflows)
        n == Len(amounts)
        total == SumSeq(amounts)
        near == SelectSeq(amounts, LAMBDA amt : AbsQuotLT(amt * n - total, total, 1, 5))
    IN  IF Cardinality(uniqueSenders) >= 5
        THEN [detected |-> TRUE, type |-> "smurfing", severity |-> "high",
              evidence |-> [uniqueSenders |-> Cardinality(uniqueSenders),
                            totalTransactions |-> n,
                            clustered |-> 5 * Len(near) >= 3 * n]]
        ELSE NotDetected

detectSmurfing(accountId, recentTxs) ==
    LET inflows == Inflows(accountId, recentTxs)
        uniqueSenders == {tx.sender : tx \in Range(inflows)}
        amounts == MapAmount(inflows)
        n == Len(amounts)
        total == SumSeq(amounts)
        \* |amt - total / n| / (total / n) < 0.2
        near == SelectSeq(amounts, LAMBDA amt : AbsQuotLT(amt * n - total, total, 1, 5))
    IN  IF Cardinality(uniqueSenders) >= 6
        THEN [detected |-> TRUE, type |-> "smurfing", severity |-> "high",
              evidence |-> [uniqueSenders |-> Cardinality(uniqueSenders),
                            totalTransactions |-> n,
                            clustered |-> 5 * Len(near) >= 3 * n]]
        ELSE NotDetected

\* stable sort of the inflows by timestamp, ascending
RECURSIVE InsertByTime(_, _)
InsertByTime(tx, s) ==
    IF s = <<>> THEN <<tx>>
    ELSE IF tx.timestamp < Head(s).timestamp THEN <<tx>> \o s
    ELSE <<Head(s)>> \o InsertByTime(tx, Tail(s))

RECURSIVE SortByTime(_)
SortByTime(s) ==
    IF s = <<>> THEN <<>>
    ELSE InsertByTime(s[Len(s)], SortByTime(SubSeq(s, 1, Len(s) - 1)))

\* the outflow Array.find returns for an inflow, as a sequence of at most one element
MatchingOutflow(accountId, transactions, inflow) ==
    LET hits == SelectSeq(transactions, LAMBDA tx :
                    /\ tx.sender = accountId
                    /\ tx.timestamp > inflow.timestamp
                    /\ tx.timestamp < inflow.timestamp + 2 * Hour
                    /\ AbsQuotLT(tx.amount - inflow.amount, inflow.amount, 1, 10))
    IN  IF hits = <<>> THEN <<>> ELSE <<Head(hits)>>

\* detectLayering with the cycle threshold one too low
detectLayeringTwoCycles(accountId, transactions) ==
    LET inflows == SortByTime(Inflows(accountId, transactions))
        rapidCycles ==
            Concat([i \in 1..Len(inflows) |->
                LET m == MatchingOutflow(accountId, transactions, inflows[i])
                IN  IF m = <<>> THEN <<>>
                    ELSE <<[inflowId |-> inflows[i].id, outflowId |-> m[1].id,
                            amount |-> inflows[i].amount,
                            timeDiff |-> m[1].timestamp - inflows[i].timestamp]>>])
    IN  IF Len(rapidCycles) >= 2
        THEN [detected |-> TRUE, type |-> "layering", severity |-> "high",
              evidence |-> [cycleCount |-> Len(rapidCycles), cycles |-> rapidCycles]]
        ELSE NotDetected

\* Pattern B: rapid in-out cycles
detectLayering(accountId, transactions) ==
    LET inflows == SortByTime(Inflows(accountId, transactions))
        rapidCycles ==
            Concat([i \in 1..Len(inflows) |->
                LET m == MatchingOutflow(accountId, transactions, inflows[i])
                IN  IF m = <<>> THEN <<>>
                    ELSE <<[inflowId |-> inflows[i].id, outflowId |-> m[1].id,
                            amount |-> inflows[i].amount,
                            timeDiff |-> m[1].timestamp - inflows[i].timestamp]>>])
    IN  IF Len(rapidCycles) >= 3
        THEN [detected |-> TRUE, type |-> "layering", severity |-> "high",
              evidence |-> [cycleCount |-> Len(rapidCycles), cycles |-> rapidCycles]]
        ELSE NotDetected

DefaultThreshold == 10000

\* Threshold10 that never looks at the baseline
Threshold10Default(baseline) ==
    10 * DefaultThreshold

\* ten times the dynamic threshold Math.max(upperTypical * 1.1, defaultThreshold)
Threshold10(baseline) ==
    Max(11 * baseline.typicalAmountRange[2], 10 * DefaultThreshold)

\* detectStructuring with the upper end of the band excluded
detectStructuringOpenBand(accountId, transactions, baseline) ==
    LET t10 == Threshold10(baseline)
        structuredTxs == SelectSeq(transactions, LAMBDA tx :
                             /\ tx.sender = accountId
                             /\ 1000 * tx.amount >= 85 * t10
                             /\ 1000 * tx.amount < 99 * t10)
        uniqueDays == Cardinality({DateOf(tx.timestamp) : tx \in Range(structuredTxs)})
    IN  IF Len(structuredTxs) >= 3 /\ uniqueDays >= 2
        THEN [detected |-> TRUE, type |-> "structuring", severity |-> "high",
              evidence |-> [transactionCount |-> Len(structuredTxs),
                            daysSpread |-> uniqueDays,
                            threshold10 |-> t10,
                            amountTotal |-> SumSeq(MapAmount(structuredTxs))]]
        ELSE NotDetected

\* Pattern C: outflows just below the dynamic threshold on several dates
detectStructuring(accountId, transactions, baseline) ==
    LET t10 == Threshold10(baseline)
        structuredTxs == SelectSeq(transactions, LAMBDA tx :
                             /\ tx.sender = accountId
                             /\ 1000 * tx.amount >= 85 * t10
                             /\ 1000 * tx.amount <= 99 * t10)
        uniqueDays == Cardinality({DateOf(tx.timestamp) : tx \in Range(structuredTxs)})
    IN  IF Len(structuredTxs) >= 3 /\ uniqueDays >= 2
        THEN [detected |-> TRUE, type |-> "structuring", severity |-> "high",
              evidence |-> [transactionCount |-> Len(structuredTxs),
                            daysSpread |-> uniqueDays,
                            threshold10 |-> t10,
                            amountTotal |-> SumSeq(MapAmount(structuredTxs))]]
        ELSE NotDetected

\* ratio = recentDailyAvg / baseline.avgDailyInflow, that is
\* (recentInflowTotal / 7) / (totalInflow / accountAge), each quotient a double
MismatchRatio(baseline, recentInflowTotal) ==
    DoubleDiv(DoubleDiv(ToDouble(recentInflowTotal), ToDouble(7)),
              DoubleDiv(ToDouble(baseline.totalInflow), ToDouble(baseline.accountAge)))

\* ratio > k, for k = 3 and k = 5.  The three roundings move the ratio by less
\* than 2^-50 of its value, and a quotient of integers below 2^28 that is not
\* k lies further from k than that: the doubles are worked out where the
\* exact ratio is k, and elsewhere the exact comparison gives their answer.
RatioExceeds(baseline, recentInflowTotal, k) ==
    IF recentInflowTotal * baseline.accountAge # 7 * k * baseline.totalInflow
    THEN recentInflowTotal * baseline.accountAge > 7 * k * baseline.totalInflow
    ELSE DoubleGT(MismatchRatio(baseline, recentInflowTotal), ToDouble(k))

\* the comparison of the ratio that reports every mismatch as high
MismatchAlwaysHigh(baseline, recentInflowTotal) ==
    IF RatioExceeds(baseline, recentInflowTotal, 3)
    THEN [detected |-> TRUE, type |-> "income_mismatch",
          severity |-> "high",
          evidence |-> [recentInflowTotal |-> recentInflowTotal,
                        accountAge |-> baseline.accountAge]]
    ELSE NotDetected

\* ratio > 3 detects, ratio > 5 makes it high
Mismatch(baseline, recentInflowTotal) ==
    IF RatioExceeds(baseline, recentInflowTotal, 3)
    THEN [detected |-> TRUE, type |-> "income_mismatch",
          severity |-> IF RatioExceeds(baseline, recentInflowTotal, 5)
                       THEN "high" ELSE "medium",
          evidence |-> [recentInflowTotal |-> recentInflowTotal,
                        accountAge |-> baseline.accountAge]]
    ELSE NotDetected

\* the comparison of the recent daily inflow with the baseline's; a recent
\* inflow of 0 gives the ratio 0
IncomeMismatch(baseline, recentInflowTotal) ==
    IF baseline.accountAge < 7 THEN NotDetected
    ELSE IF ~AvgPositive(baseline.totalInflow, baseline) THEN NotDetected
    ELSE IF recentInflowTotal = 0 THEN NotDetected
    ELSE Mismatch(baseline, recentInflowTotal)

\* Pattern D: recent inflow (last 7 days) against the historical average
detectIncomeMismatch(accountId, transactions, clock) ==
    IncomeMismatch(calculateBaseline(accountId, transactions, clock),
                   SumSeq(MapAmount(Inflows(accountId,
                       getRecentActivity(accountId, transactions, 24 * 7, clock)))))

Detected(results) == SelectSeq(results, LAMBDA r : r.detected)

detectPatterns(accountId, transactions, clock) ==
    LET baseline == calculateBaseline(accountId, transactions, clock)
        recentTxs == getRecentActivity(accountId, transactions, 48, clock)
    IN  Detected(<<detectSmurfing(accountId, recentTxs),
                   detectLayering(accountId, transactions),
                   detectStructuring(accountId, transactions, baseline),
                   detectIncomeMismatch(accountId, transactions, clock)>>)

(* --------------------------- NetworkAnalyzer --------------------------- *)
MaxDepth == 5

\* all maximal paths from startAccount, depth first in store order; a path
\* ends at maxDepth transactions or where no unvisited outflow is left
RECURSIVE traceFundPaths(_, _, _, _, _)
traceFundPaths(startAccount, transactions, maxDepth, currentPath, visited) ==
    LET lastAccount == IF Len(currentPath) > 0
                       THEN currentPath[Len(currentPath)].receiver
                       ELSE startAccount
        outflows == SelectSeq(transactions, LAMBDA tx :
                        tx.sender = lastAccount /\ tx.id \notin visited)
    IN  IF Len(currentPath) >= maxDepth THEN <<currentPath>>
        ELSE IF Len(outflows) = 0
        THEN IF Len(currentPath) > 0 THEN <<currentPath>> ELSE <<>>
        ELSE Concat([i \in 1..Len(outflows) |->
                 traceFundPaths(startAccount, transactions, maxDepth,
                                Append(currentPath, outflows[i]),
                                visited \cup {outflows[i].id})])

\* one call of traceFundPaths that forgets the ids it has visited
TraceFrameRevisiting(startAccount, transactions, maxDepth, frame) ==
    LET currentPath == frame.currentPath
        lastAccount == IF Len(currentPath) > 0
                       THEN currentPath[Len(currentPath)].receiver
                       ELSE startAccount
        outflows == SelectSeq(transactions, LAMBDA tx : tx.sender = lastAccount)
    IN  IF Len(currentPath) >= maxDepth
        THEN [returned |-> <<currentPath>>, calls |-> <<>>]
        ELSE IF Len(outflows) = 0
        THEN [returned |-> IF Len(currentPath) > 0 THEN <<currentPath>> ELSE <<>>,
              calls |-> <<>>]
        ELSE [returned |-> <<>>,
              calls |-> [i \in 1..Len(outflows) |->
                            [currentPath |-> Append(currentPath, outflows[i]),
                             visited |-> frame.visited]]]

\* one call of traceFundPaths taken by itself: the paths it returns without
\* recursing, or the recursive calls it makes, in the order of the forEach
TraceFrame(startAccount, transactions, maxDepth, frame) ==
    LET currentPath == frame.currentPath
        lastAccount == IF Len(currentPath) > 0
                       THEN currentPath[Len(currentPath)].receiver
                       ELSE startAccount
        outflows == SelectSeq(transactions, LAMBDA tx :
                        tx.sender = lastAccount /\ tx.id \notin frame.visited)
    IN  IF Len(currentPath) >= maxDepth
        THEN [returned |-> <<currentPath>>, calls |-> <<>>]
        ELSE IF Len(outflows) = 0
        THEN [returned |-> IF Len(currentPath) > 0 THEN <<currentPath>> ELSE <<>>,
              calls |-> <<>>]
        ELSE [returned |-> <<>>,
              calls |-> [i \in 1..Len(outflows) |->
                            [currentPath |-> Append(currentPath, outflows[i]),
                             visited |-> frame.visited \cup {outflows[i].id}]]]

\* reduce((longest, current) => current.length > longest.length ? current : longest)
RECURSIVE Longest(_)
Longest(paths) ==
    IF Len(paths) = 1 THEN paths[1]
    ELSE LET rest == Longest(SubSeq(paths, 1, Len(paths) - 1))
             current == paths[Len(paths)]
         IN  IF Len(current) > Len(rest) THEN current ELSE rest

CircularSignal(mainPath) ==
    [detected |-> TRUE, type |-> "circular_flow", severity |-> "critical",
     evidence |-> [pathLength |-> Len(mainPath),
                   path |-> [i \in 1..Len(mainPath) |-> mainPath[i].id]]]

CircularPaths(accountId, paths) ==
    SelectSeq(paths, LAMBDA path :
        path[Len(path)].receiver = accountId /\ Len(path) >= 3)

LongestCircular(circularPaths) ==
    IF Len(circularPaths) > 0 THEN CircularSignal(Longest(circularPaths)) ELSE NotDetected

detectCircularFlow(accountId, transactions) ==
    LongestCircular(CircularPaths(accountId,
        traceFundPaths(accountId, transactions, MaxDepth, <<>>, {})))

detectHubBehavior(accountId, transactions) ==
    LET inflows == Inflows(accountId, transactions)
        outflows == Outflows(accountId, transactions)
        uniqueSenders == Cardinality({tx.sender : tx \in Range(inflows)})
        uniqueReceivers == Cardinality({tx.receiver : tx \in Range(outflows)})
        rapid == SelectSeq(inflows, LAMBDA inflow :
                     \E i \in 1..Len(outflows) :
                         /\ outflows[i].timestamp - inflow.timestamp > 0
                         /\ outflows[i].timestamp - inflow.timestamp < 24 * Hour)
    IN  IF uniqueSenders >= 5 /\ uniqueReceivers >= 5 /\ Len(rapid) >= 3
        THEN [detected |-> TRUE, type |-> "hub_account", severity |-> "critical",
              evidence |-> [uniqueSenders |-> uniqueSenders,
                            uniqueReceivers |-> uniqueReceivers,
                            rapidRedistributions |-> Len(rapid)]]
        ELSE NotDetected

Flagged == {"High Risk", "Probable Money Laundering"}

Counterparty(tx, accountId) == IF tx.sender = accountId THEN tx.receiver ELSE tx.sender

\* detectFlaggedLinks that follows the account's outflows only
detectFlaggedLinksOutgoing(accountId, transactions, accountEvidence) ==
    LET flaggedAccounts == {acc \in DOMAIN accountEvidence :
                               accountEvidence[acc].riskLevel \in Flagged}
        connections == SelectSeq(transactions, LAMBDA tx :
                           tx.sender = accountId /\ tx.receiver \in flaggedAccounts)
    IN  IF flaggedAccounts = {} THEN NotDetected
        ELSE IF Len(connections) > 0
        THEN [detected |-> TRUE, type |-> "flagged_links", severity |-> "high",
              evidence |-> [linkedAccounts |-> {Counterparty(tx, accountId) :
                                                   tx \in Range(connections)},
                            connections |-> [i \in 1..Len(connections) |->
                                [txId |-> connections[i].id,
                                 counterparty |-> Counterparty(connections[i], accountId)]]]]
        ELSE NotDetected

detectFlaggedLinks(accountId, transactions, accountEvidence) ==
    LET flaggedAccounts == {acc \in DOMAIN accountEvidence :
                               accountEvidence[acc].riskLevel \in Flagged}
        connections == SelectSeq(transactions, LAMBDA tx :
                           \/ tx.sender = accountId /\ tx.receiver \in flaggedAccounts
                           \/ tx.receiver = accountId /\ tx.sender \in flaggedAccounts)
    IN  IF flaggedAccounts = {} THEN NotDetected
        ELSE IF Len(connections) > 0
        THEN [detected |-> TRUE, type |-> "flagged_links", severity |-> "high",
              evidence |-> [linkedAccounts |-> {Counterparty(tx, accountId) :
                                                   tx \in Range(connections)},
                            connections |-> [i \in 1..Len(connections) |->
                                [txId |-> connections[i].id,
                                 counterparty |-> Counterparty(connections[i], accountId)]]]]
        ELSE NotDetected

\* the analysis with the probable-ML rule compared by > instead of >=
AnalysisStrict(accountId, signals) ==
    [accountId |-> accountId,
     networkSignals |-> Len(signals),
     isProbableML |-> Len(signals) > 2,
     signals |-> signals]

Analysis(accountId, signals) ==
    [accountId |-> accountId,
     networkSignals |-> Len(signals),
     isProbableML |-> Len(signals) >= 2,
     signals |-> signals]

analyzeAccount(accountId, transactions, accountEvidence) ==
    Analysis(accountId,
             Detected(<<detectCircularFlow(accountId, transactions),
                        detectHubBehavior(accountId, transactions),
                        detectFlaggedLinks(accountId, transactions, accountEvidence)>>))

(* ------------------------------- Store --------------------------------- *)
\* A call context: the persisted document, the state of Math.random's
\* generator, the saveData calls made so far in the running handler (what was
\* written, and the transaction ids observable in the Store at that write) and
\* the generateAlert calls made so far (the score handed in, and whether null
\* came back).
\* the working state of one call: the document in localStorage, the generator,
\* the writes made so far; failAt numbers the write of this call at which
\* localStorage.setItem throws (0: none does), failed tells that it has thrown,
\* after which nothing of the call runs any more
CtxFailing(st, sd, k) ==
    [store |-> st, seed |-> sd, writes |-> <<>>, generated |-> <<>>,
     failAt |-> k, failed |-> FALSE]

Ctx(st, sd) == CtxFailing(st, sd, 0)

TxIds(st) == {tx.id : tx \in Range(st.transactions)}

saveData(ctx, data, what) ==
    IF ctx.failed THEN ctx
    ELSE IF Len(ctx.writes) + 1 = ctx.failAt THEN [ctx EXCEPT !.failed = TRUE]
    ELSE [ctx EXCEPT !.store = data,
                     !.writes = Append(@, [what |-> what, txIds |-> TxIds(data)])]

\* Math.random: a seeded generator, its state advanced by every draw
NextSeed(sd) == (3 * sd + 1) % 7

\* logAudit with the random token written into the details as well
logAuditTagged(ctx, clock, user, action, details) ==
    IF ctx.failed THEN ctx ELSE
    [saveData(ctx, [ctx.store EXCEPT !.auditLogs =
                       <<[id |-> <<clock, ctx.seed>>, timestamp |-> clock, user |-> user,
                          action |-> action, details |-> <<details, ctx.seed>>]>> \o @],
              "audit")
        EXCEPT !.seed = NextSeed(ctx.seed)]

\* unshift a record with id Date.now().toString(36) + Math.random().toString(36)
logAudit(ctx, clock, user, action, details) ==
    LET log == [id |-> <<clock, ctx.seed>>, timestamp |-> clock,
                user |-> user, action |-> action, details |-> details]
        c == saveData(ctx, [ctx.store EXCEPT !.auditLogs = <<log>> \o @], "audit")
    IN  IF ctx.failed THEN ctx ELSE [c EXCEPT !.seed = NextSeed(ctx.seed)]

addTransaction(ctx, clock, transaction) ==
    logAudit(saveData(ctx, [ctx.store EXCEPT !.transactions = <<transaction>> \o @],
                      "transaction"),
             clock, "System", "Transaction Added", transaction.id)

\* the document init() saves, and the audit record it logs
InitialData == [transactions |-> <<>>, alerts |-> <<>>, auditLogs |-> <<>>,
                accountEvidence |-> <<>>]

StoreInit(clock, sd) ==
    logAudit(saveData(Ctx(InitialData, sd), InitialData, "init"),
             clock, "System", "Initialization", 0)

(* --------------------------- EvidenceEngine ---------------------------- *)
checkUnusualTiming(transaction, accountHistory) ==
    LET normalHourTxs == SelectSeq(accountHistory, LAMBDA tx :
                             HourOf(tx.timestamp) >= 5 /\ HourOf(tx.timestamp) < 24)
    IN  /\ HourOf(transaction.timestamp) >= 0
        /\ HourOf(transaction.timestamp) < 5
        /\ 5 * Len(normalHourTxs) > 4 * Len(accountHistory)

\* the entries pushed for the transactions touching the account, in order
findSuspiciousTransactions(accountId, transactions, baseline, clock) ==
    LET accountTxs == AccountTxs(accountId, transactions)
        todaysTxs == SelectSeq(accountTxs, LAMBDA tx : tx.timestamp >= StartOfDay(clock))
        txCountToday == Len(todaysTxs)
        uniqueSendersToday ==
            Cardinality({tx.sender : tx \in Range(Inflows(accountId, todaysTxs))})
        age == baseline.accountAge
        entry(tx, type) == <<[txId |-> tx.id, type |-> type]>>
        deviation(tx) ==
            IF tx.sender = accountId /\ checkDeviation(tx, baseline).hasDeviation
            THEN entry(tx, "baseline_deviation") ELSE <<>>
        \* txCountToday > (totalTransactions / age) * 3
        frequency(tx) ==
            IF /\ AvgPositive(baseline.totalTransactions, baseline)
               /\ QuotGT(txCountToday * age, 3 * baseline.totalTransactions, 1, 1)
            THEN entry(tx, "frequency_spike") ELSE <<>>
        \* uniqueSendersToday > (uniqueSenders / age) * 2
        senders(tx) ==
            IF /\ tx.receiver = accountId
               /\ AvgPositive(baseline.uniqueSenders, baseline)
               /\ QuotGT(uniqueSendersToday * age, 2 * baseline.uniqueSenders, 1, 1)
            THEN entry(tx, "sender_count_spike") ELSE <<>>
        similarTxs(tx) == SelectSeq(accountTxs, LAMBDA o :
                              /\ o.timestamp >= tx.timestamp - 24 * Hour
                              /\ AbsQuotLT(o.amount - tx.amount, tx.amount, 1, 20))
        similar(tx) ==
            IF Len(similarTxs(tx)) >= 3 THEN entry(tx, "similar_value_repeat") ELSE <<>>
        timing(tx) ==
            IF checkUnusualTiming(tx, accountTxs) THEN entry(tx, "unusual_timing") ELSE <<>>
    IN  Concat([i \in 1..Len(accountTxs) |->
            deviation(accountTxs[i]) \o frequency(accountTxs[i]) \o senders(accountTxs[i])
                \o similar(accountTxs[i]) \o timing(accountTxs[i])])

WeightSuspiciousTransaction == 10
WeightConfirmedPattern == 20
WeightNetworkSignal == 30
ProbableMLBonus == 20
ScoreCap == 100

\* calculateScore without the Math.min cap
calculateScoreUncapped(suspiciousTxs, patterns, networkAnalysis) ==
    Len(suspiciousTxs) * WeightSuspiciousTransaction
      + Len(patterns) * WeightConfirmedPattern
      + networkAnalysis.networkSignals * WeightNetworkSignal
      + (IF networkAnalysis.isProbableML THEN ProbableMLBonus ELSE 0)

\* calculateScore with the bonus assigned (score = 20) instead of added
calculateScoreBonusAssigned(suspiciousTxs, patterns, networkAnalysis) ==
    IF networkAnalysis.isProbableML THEN Min(ProbableMLBonus, ScoreCap)
    ELSE Min(Len(suspiciousTxs) * WeightSuspiciousTransaction
               + Len(patterns) * WeightConfirmedPattern
               + networkAnalysis.networkSignals * WeightNetworkSignal,
             ScoreCap)

calculateScore(suspiciousTxs, patterns, networkAnalysis) ==
    Min(Len(suspiciousTxs) * WeightSuspiciousTransaction
          + Len(patterns) * WeightConfirmedPattern
          + networkAnalysis.networkSignals * WeightNetworkSignal
          + (IF networkAnalysis.isProbableML THEN ProbableMLBonus ELSE 0),
        ScoreCap)

\* getRiskLevel with the thresholds compared by > instead of >=
getRiskLevelStrict(score) ==
    IF score > 80 THEN "Probable Money Laundering"
    ELSE IF score > 60 THEN "High Risk"
    ELSE IF score > 30 THEN "Suspicious"
    ELSE "Normal"

getRiskLevel(score) ==
    IF score >= 80 THEN "Probable Money Laundering"
    ELSE IF score >= 60 THEN "High Risk"
    ELSE IF score >= 30 THEN "Suspicious"
    ELSE "Normal"

PutEvidence(accountEvidence, accountId, record) ==
    [a \in (DOMAIN accountEvidence) \cup {accountId} |->
        IF a = accountId THEN record ELSE accountEvidence[a]]

updateAccountEvidence(ctx, evaluation) ==
    saveData(ctx,
        [ctx.store EXCEPT !.accountEvidence =
            PutEvidence(@, evaluation.accountId,
                [score |-> evaluation.score,
                 riskLevel |-> evaluation.riskLevel,
                 suspiciousTransactions |-> evaluation.evidence.suspiciousTransactions,
                 confirmedPatterns |-> evaluation.evidence.confirmedPatterns,
                 networkSignals |-> evaluation.evidence.networkSignals,
                 isProbableML |-> evaluation.evidence.isProbableML,
                 lastUpdated |-> evaluation.timestamp])],
        "evidence")

Evaluation(ctx, clock, accountId, suspiciousTxs, patterns, networkAnalysis, score) ==
    [ctx |-> ctx,
     evaluation |->
        [accountId |-> accountId,
         score |-> score,
         riskLevel |-> getRiskLevel(score),
         evidence |-> [suspiciousTransactions |-> Len(suspiciousTxs),
                       confirmedPatterns |-> Len(patterns),
                       networkSignals |-> networkAnalysis.networkSignals,
                       isProbableML |-> networkAnalysis.isProbableML],
         details |-> [suspiciousTxs |-> suspiciousTxs,
                      patterns |-> patterns,
                      networkSignals |-> networkAnalysis.signals],
         timestamp |-> clock]]

Scored(ctx, clock, accountId, suspiciousTxs, patterns, networkAnalysis) ==
    Evaluation(ctx, clock, accountId, suspiciousTxs, patterns, networkAnalysis,
               calculateScore(suspiciousTxs, patterns, networkAnalysis))

WithEvidencePersisted(ev) ==
    [ev EXCEPT !.ctx = updateAccountEvidence(ev.ctx, ev.evaluation)]

\* evaluateAccount that also persists the evidence it computed
evaluateAccountPersisting(ctx, clock, accountId) ==
    WithEvidencePersisted(Scored(ctx, clock, accountId,
        findSuspiciousTransactions(accountId, ctx.store.transactions,
            calculateBaseline(accountId, ctx.store.transactions, clock), clock),
        detectPatterns(accountId, ctx.store.transactions, clock),
        analyzeAccount(accountId, ctx.store.transactions, ctx.store.accountEvidence)))

\* evaluateAccount reads the Store and hands back the evaluation; the context
\* it returns is the context after the call
evaluateAccount(ctx, clock, accountId) ==
    Scored(ctx, clock, accountId,
           findSuspiciousTransactions(accountId, ctx.store.transactions,
               calculateBaseline(accountId, ctx.store.transactions, clock), clock),
           detectPatterns(accountId, ctx.store.transactions, clock),
           analyzeAccount(accountId, ctx.store.transactions, ctx.store.accountEvidence))

(* --------------------------- AlertGenerator ---------------------------- *)
mapRiskToSeverity(riskLevel) ==
    CASE riskLevel = "Normal" -> "low"
      [] riskLevel = "Suspicious" -> "medium"
      [] riskLevel = "High Risk" -> "high"
      [] riskLevel = "Probable Money Laundering" -> "critical"
      [] OTHER -> "low"

NoAlert == [isNull |-> TRUE]

\* generateAlert without the threshold test
generateAlertAlways(evaluation, clock) ==
    [isNull |-> FALSE,
     id |-> clock,
     accountId |-> evaluation.accountId,
     severity |-> mapRiskToSeverity(evaluation.riskLevel),
     riskLevel |-> evaluation.riskLevel,
     score |-> evaluation.score,
     timestamp |-> clock,
     status |-> "open",
     evidenceBreakdown |->
         [suspiciousTransactions |-> evaluation.evidence.suspiciousTransactions,
          confirmedPatterns |-> evaluation.evidence.confirmedPatterns,
          networkSignals |-> evaluation.evidence.networkSignals]]

\* null below the Suspicious threshold, otherwise the alert built at this clock reading
generateAlert(evaluation, clock) ==
    IF evaluation.score < 30 THEN NoAlert
    ELSE [isNull |-> FALSE,
          id |-> clock,
          accountId |-> evaluation.accountId,
          severity |-> mapRiskToSeverity(evaluation.riskLevel),
          riskLevel |-> evaluation.riskLevel,
          score |-> evaluation.score,
          timestamp |-> clock,
          status |-> "open",
          evidenceBreakdown |->
              [suspiciousTransactions |-> evaluation.evidence.suspiciousTransactions,
               confirmedPatterns |-> evaluation.evidence.confirmedPatterns,
               networkSignals |-> evaluation.evidence.networkSignals]]

\* the duplicate test with the window comparison reversed
ExistingAlertReversed(alerts, accountId, clock) ==
    \E i \in 1..Len(alerts) :
        alerts[i].accountId = accountId /\ alerts[i].timestamp < clock - Hour

\* an alert of the account newer than one hour before the clock reading
ExistingAlert(alerts, accountId, clock) ==
    \E i \in 1..Len(alerts) :
        alerts[i].accountId = accountId /\ alerts[i].timestamp > clock - Hour

\* the evaluation with the alert generateAlert builds from it, the call noted
Generated(ev, clock) ==
    [ctx |-> [ev.ctx EXCEPT !.generated =
                 Append(@, [score |-> ev.evaluation.score,
                            isNull |-> generateAlert(ev.evaluation, clock).isNull])],
     evaluation |-> ev.evaluation,
     alert |-> generateAlert(ev.evaluation, clock)]

\* SaveUnlessExisting that logs the audit record for a suppressed alert too
SaveUnlessExistingLogging(g, clock, accountId) ==
    IF g.alert.isNull THEN [ctx |-> g.ctx, alert |-> g.alert, appended |-> FALSE]
    ELSE IF ExistingAlert(g.ctx.store.alerts, accountId, clock)
    THEN [ctx |-> logAudit(g.ctx, clock, "System", "Alert Generated", accountId),
          alert |-> g.alert, appended |-> FALSE]
    ELSE [ctx |-> logAudit(saveData(g.ctx,
                               [g.ctx.store EXCEPT !.alerts = Append(@, g.alert)], "alert"),
                           clock, "System", "Alert Generated", accountId),
          alert |-> g.alert, appended |-> TRUE]

\* push the alert unless the account has one in the last hour; the alert is
\* returned also when it was suppressed, null when none was generated
SaveUnlessExisting(g, clock, accountId) ==
    IF g.alert.isNull THEN [ctx |-> g.ctx, alert |-> g.alert, appended |-> FALSE]
    ELSE IF ExistingAlert(g.ctx.store.alerts, accountId, clock)
    THEN [ctx |-> g.ctx, alert |-> g.alert, appended |-> FALSE]
    ELSE [ctx |-> logAudit(saveData(g.ctx,
                               [g.ctx.store EXCEPT !.alerts = Append(@, g.alert)], "alert"),
                           clock, "System", "Alert Generated", accountId),
          alert |-> g.alert, appended |-> TRUE]

createAndSaveAlert(ctx, clock, accountId) ==
    SaveUnlessExisting(Generated(evaluateAccount(ctx, clock, accountId), clock),
                       clock, accountId)

(* ------------------------------ AMLEngine ------------------------------ *)
Summary(evaluation, alertGenerated, appended) ==
    [accountId |-> evaluation.accountId,
     riskLevel |-> evaluation.riskLevel,
     score |-> evaluation.score,
     alertGenerated |-> alertGenerated,
     appended |-> appended]

\* alertGenerated is set when createAndSaveAlert returned an alert
Alerted(acc, evaluation, made) ==
    [ctx |-> made.ctx,
     accounts |-> Append(acc.accounts,
                         Summary(evaluation, ~made.alert.isNull, made.appended))]

Persisted(acc, clock, accountId, ev) ==
    IF ev.evaluation.score >= 30
    THEN Alerted(acc, ev.evaluation,
                 createAndSaveAlert(updateAccountEvidence(ev.ctx, ev.evaluation),
                                    clock, accountId))
    ELSE [ctx |-> updateAccountEvidence(ev.ctx, ev.evaluation),
          accounts |-> Append(acc.accounts, Summary(ev.evaluation, FALSE, FALSE))]

\* one pass of the forEach body of processTransaction: evaluate, persist, and
\* create the alert when the evaluation reaches the threshold
ProcessAccount(acc, clock, accountId) ==
    Persisted(acc, clock, accountId, evaluateAccount(acc.ctx, clock, accountId))

RECURSIVE ForEachAccount(_, _, _)
ForEachAccount(acc, clock, accounts) ==
    IF accounts = <<>> THEN acc
    ELSE ForEachAccount(ProcessAccount(acc, clock, Head(accounts)), clock, Tail(accounts))

\* reduce((max, e) => e.score > max.score ? e : max)
HighestRisk(accounts) ==
    IF accounts[2].score > accounts[1].score THEN accounts[2].accountId
    ELSE accounts[1].accountId

ProcessResult(transaction, done) ==
    [ctx |-> done.ctx,
     result |-> [transactionId |-> transaction.id,
                 accounts |-> done.accounts,
                 highestRisk |-> HighestRisk(done.accounts)]]

\* processTransaction with the accounts evaluated before the transaction is added
processTransactionLate(ctx, clock, transaction) ==
    [ProcessResult(transaction,
         ForEachAccount([ctx |-> ctx, accounts |-> <<>>],
                        clock, <<transaction.sender, transaction.receiver>>))
        EXCEPT !.ctx = addTransaction(@, clock, transaction)]

processTransaction(ctx, clock, transaction) ==
    ProcessResult(transaction,
        ForEachAccount([ctx |-> addTransaction(ctx, clock, transaction), accounts |-> <<>>],
                       clock, <<transaction.sender, transaction.receiver>>))

PersistAndGenerate(ev, g) ==
    IF ev.evaluation.score >= 30
    THEN [ctx |-> updateAccountEvidence(g.ctx, ev.evaluation),
          evaluation |-> ev.evaluation, alert |-> g.alert]
    ELSE [ctx |-> updateAccountEvidence(ev.ctx, ev.evaluation),
          evaluation |-> ev.evaluation, alert |-> NoAlert]

EvaluatedAndPersisted(ev, clock) == PersistAndGenerate(ev, Generated(ev, clock))

\* AMLEngine.evaluateAccount: evaluate, persist, and generate the alert when
\* the evaluation reaches the threshold
engineEvaluateAccount(ctx, clock, accountId) ==
    EvaluatedAndPersisted(evaluateAccount(ctx, clock, accountId), clock)

\* the accounts in Set insertion order: store order, sender before receiver
RECURSIVE Dedup(_, _)
Dedup(s, seen) ==
    IF s = <<>> THEN <<>>
    ELSE IF Head(s) \in seen THEN Dedup(Tail(s), seen)
    ELSE <<Head(s)>> \o Dedup(Tail(s), seen \cup {Head(s)})

AccountsOf(transactions) ==
    Dedup(Concat([i \in 1..Len(transactions) |->
              <<transactions[i].sender, transactions[i].receiver>>]), {})

EvaluatedOne(acc, ev) ==
    [ctx |-> updateAccountEvidence(ev.ctx, ev.evaluation),
     results |-> Append(acc.results, ev.evaluation)]

RECURSIVE EvaluateEach(_, _, _)
EvaluateEach(acc, clock, accounts) ==
    IF accounts = <<>> THEN acc
    ELSE EvaluateEach(EvaluatedOne(acc, evaluateAccount(acc.ctx, clock, Head(accounts))),
                      clock, Tail(accounts))

evaluateAllAccounts(ctx, clock) ==
    EvaluateEach([ctx |-> ctx, results |-> <<>>], clock,
                 AccountsOf(ctx.store.transactions))

RECURSIVE AlertEach(_, _, _)
AlertEach(ctx, clock, results) ==
    IF results = <<>> THEN ctx
    ELSE AlertEach(IF Head(results).score >= 30
                   THEN createAndSaveAlert(ctx, clock, Head(results).accountId).ctx
                   ELSE ctx,
                   clock, Tail(results))

AnalysisResult(results, done) ==
    [ctx |-> done,
     results |-> results,
     result |-> [totalAccounts |-> Len(results),
                 highRiskAccounts |-> Len(SelectSeq(results, LAMBDA r : r.score >= 60)),
                 suspiciousAccounts |->
                     Len(SelectSeq(results, LAMBDA r : r.score >= 30 /\ r.score < 60)),
                 alertsGenerated |-> Len(done.store.alerts)]]

AlertsFor(all, clock) == AnalysisResult(all.results, AlertEach(all.ctx, clock, all.results))

runFullAnalysis(ctx, clock) == AlertsFor(evaluateAllAccounts(ctx, clock), clock)

(* ------------------------------ the system ----------------------------- *)
\* the second run of the determinism experiment: its own Store and generator,
\* fed the same calls at the same clock readings
TwinOff == [on |-> FALSE]

TwinOf(c) == [on |-> TRUE, store |-> c.store, seed |-> c.seed]

Idle == [op |-> "none"]

\* the state after construction; the generator's start state shows in nothing
\* but the ids of audit records, and the pair specification varies it
Init ==
    /\ now = NowStart
    /\ \E c \in {StoreInit(NowStart, 0)} : store = c.store /\ seed = c.seed
    /\ last = Idle
    /\ twin = TwinOff

InitPair ==
    /\ now = NowStart
    /\ \E sd \in Seeds, sd2 \in Seeds :
          \E c \in {StoreInit(NowStart, sd)} :
              /\ store = c.store
              /\ seed = c.seed
              /\ twin = [on |-> TRUE, store |-> c.store, seed |-> sd2]
    /\ last = Idle

\* the clock advances between calls; the previous call's result is dropped
ShortTick ==
    /\ now < NowStart + MaxSubTicks
    /\ now' = now + 1
    /\ last' = Idle
    /\ UNCHANGED <<store, seed, twin>>

LongTick ==
    /\ now + LongStep <= MaxNow
    /\ now' = now + LongStep
    /\ last' = Idle
    /\ UNCHANGED <<store, seed, twin>>

Commit(c) == store' = c.store /\ seed' = c.seed

NewTx(st, in, clock) ==
    [id |-> Len(st.transactions) + 1, sender |-> in.sender, receiver |-> in.receiver,
     amount |-> in.amount, timestamp |-> clock - in.back]

ProcessCall(in) ==
    /\ Len(store.transactions) < MaxTx
    /\ \E out \in {processTransaction(Ctx(store, seed), now, NewTx(store, in, now))} :
           /\ Commit(out.ctx)
           /\ last' = [op |-> "process", tx |-> NewTx(store, in, now),
                       result |-> out.result, writes |-> out.ctx.writes,
                       generated |-> out.ctx.generated]
    /\ UNCHANGED now

Process == \E in \in TxInputs : ProcessCall(in) /\ UNCHANGED twin

\* number of transactions processed where writes may fail
MaxFailingTx == 2

\* the most Store writes one processTransaction makes: the transaction and its
\* audit record, then per account the evidence, the alert and its audit record
MaxWrites == 8

\* processTransaction during which the k-th localStorage.setItem throws: the
\* exception leaves the call, and the document is the one the writes before
\* it have stored
ProcessFailingCall(in, k) ==
    /\ Len(store.transactions) < MaxFailingTx
    /\ \E out \in {processTransaction(CtxFailing(store, seed, k), now, NewTx(store, in, now))} :
           /\ out.ctx.failed
           /\ Commit(out.ctx)
           /\ last' = [op |-> "processFailed", tx |-> NewTx(store, in, now),
                       failedWrite |-> k, before |-> store,
                       writes |-> out.ctx.writes]
    /\ UNCHANGED now

ProcessFailing == \E in \in TxInputs, k \in 1..MaxWrites : ProcessFailingCall(in, k) /\ UNCHANGED twin

ProcessWhileFew == Len(store.transactions) < MaxFailingTx /\ Process

NextFailing == ShortTick \/ ProcessWhileFew \/ ProcessFailing

SpecFailing == Init /\ [][NextFailing]_vars

\* the same call made on both runs
ProcessBoth ==
    \E in \in TxInputs :
        /\ ProcessCall(in)
        /\ twin' = TwinOf(processTransaction(Ctx(twin.store, twin.seed), now,
                                             NewTx(twin.store, in, now)).ctx)

Evaluate ==
    /\ \E accountId \in Accounts :
          \E out \in {evaluateAccount(Ctx(store, seed), now, accountId)} :
              /\ Commit(out.ctx)
              /\ last' = [op |-> "evaluate", accountId |-> accountId,
                          evaluation |-> out.evaluation]
    /\ UNCHANGED <<now, twin>>

EvaluateAndPersist ==
    /\ \E accountId \in Accounts :
          \E out \in {engineEvaluateAccount(Ctx(store, seed), now, accountId)} :
              /\ Commit(out.ctx)
              /\ last' = [op |-> "evaluateAndPersist", accountId |-> accountId,
                          score |-> out.evaluation.score, alert |-> out.alert,
                          generated |-> out.ctx.generated]
    /\ UNCHANGED <<now, twin>>

FullAnalysis ==
    /\ \E out \in {runFullAnalysis(Ctx(store, seed), now)} :
           /\ Commit(out.ctx)
           /\ last' = [op |-> "fullAnalysis", result |-> out.result,
                       generated |-> out.ctx.generated]
    /\ UNCHANGED <<now, twin>>

Next ==
    \/ ShortTick
    \/ LongTick
    \/ Process
    \/ Evaluate
    \/ EvaluateAndPersist
    \/ FullAnalysis

Spec == Init /\ [][Next]_vars

NextPair ==
    \/ ShortTick
    \/ LongTick
    \/ ProcessBoth

SpecPair == InitPair /\ [][NextPair]_vars

(* ------------------------- the score function -------------------------- *)
\* largest count of suspicious transactions, patterns and network signals
\* handed to calculateScore
MaxCount == 4

Filler(n) == [i \in 1..n |-> i]

InitScore ==
    /\ now = NowStart
    /\ store = InitialData
    /\ seed = 0
    /\ twin = TwinOff
    /\ \E s \in 0..MaxCount, p \in 0..MaxCount, n \in 0..MaxCount, b \in BOOLEAN :
          last = [op |-> "counts", suspicious |-> s, patterns |-> p,
                  networkSignals |-> n, isProbableML |-> b]

Score ==
    /\ last.op = "counts"
    /\ \E score \in {calculateScore(Filler(last.suspicious), Filler(last.patterns),
                                    [networkSignals |-> last.networkSignals,
                                     isProbableML |-> last.isProbableML])} :
           last' = [last EXCEPT !.op = "scored"] @@ (
                   "score" :> score @@ "riskLevel" :> getRiskLevel(score))
    /\ UNCHANGED <<now, store, seed, twin>>

SpecScore == InitScore /\ [][Score]_vars

\* the score of a triple of counts as evaluateAccount computes it: the
\* network analysis built by analyzeAccount from that many signals
ScoreOf(suspicious, patterns, networkSignals) ==
    calculateScore(Filler(suspicious), Filler(patterns),
                   Analysis("A", Filler(networkSignals)))

Counts == {"suspicious", "patterns", "networkSignals"}

InitMonotone ==
    /\ now = NowStart
    /\ store = InitialData
    /\ seed = 0
    /\ twin = TwinOff
    /\ \E s \in 0..MaxCount, p \in 0..MaxCount, n \in 0..MaxCount, c \in Counts :
          last = [op |-> "triple", suspicious |-> s, patterns |-> p,
                  networkSignals |-> n, raised |-> c]

\* score the triple, and the triple with the count named by raised one higher
ScoreBoth ==
    /\ last.op = "triple"
    /\ last' = [last EXCEPT !.op = "compared"] @@ (
           "score" :> ScoreOf(last.suspicious, last.patterns, last.networkSignals) @@
           "scoreRaised" :>
               ScoreOf(last.suspicious + (IF last.raised = "suspicious" THEN 1 ELSE 0),
                       last.patterns + (IF last.raised = "patterns" THEN 1 ELSE 0),
                       last.networkSignals
                           + (IF last.raised = "networkSignals" THEN 1 ELSE 0)))
    /\ UNCHANGED <<now, store, seed, twin>>

SpecMonotone == InitMonotone /\ [][ScoreBoth]_vars

(* ------------------------------ baselines ------------------------------ *)
\* number of transactions in the Store a baseline is computed from
MaxBaselineTx == 2

\* timestamps before, at and after the clock reading
BaselineOffsets == {-(3 * Day), -Day, -1, 0, 1, Day, 2 * Day + 1}

BaselineTxs ==
    {[sender |-> p[1], receiver |-> p[2], amount |-> 100, timestamp |-> NowStart + d] :
        p \in {<<"A", "B">>, <<"B", "A">>}, d \in BaselineOffsets}

InitBaseline ==
    /\ now = NowStart
    /\ seed = 0
    /\ twin = TwinOff
    /\ last = Idle
    /\ \E n \in 1..MaxBaselineTx : \E txs \in [1..n -> BaselineTxs] :
          store = [InitialData EXCEPT
                      !.transactions = [i \in 1..n |-> txs[i] @@ ("id" :> i)]]

ComputeBaseline ==
    /\ \E accountId \in Accounts :
          last' = [op |-> "baseline", accountId |-> accountId,
                   baseline |-> calculateBaseline(accountId, store.transactions, now)]
    /\ UNCHANGED <<now, store, seed, twin>>

SpecBaseline == InitBaseline /\ [][ComputeBaseline]_vars

(* --------------------------- pattern detection ------------------------- *)
\* run the four detectors on the account the Store's transactions were built around
DetectPatterns ==
    /\ last.op = "none"
    /\ last' = [op |-> "patterns", accountId |-> "A",
                patterns |-> detectPatterns("A", store.transactions, now)]
    /\ UNCHANGED <<now, store, seed, twin>>

\* number of distinct senders paying into the account
MaxSenders == 7

SenderNames == <<"S1", "S2", "S3", "S4", "S5", "S6", "S7", "S8", "S9">>

\* inflows to A from the senders S1..Sn: the first high of them of 6000, the
\* others of 4000; the last old of them stamped exactly 48 hours back, the
\* others 30 hours back; and, when again, a second inflow from S1
SmurfingTxs(n, high, old, again) ==
    [i \in 1..n |->
        [id |-> i, sender |-> SenderNames[i], receiver |-> "A",
         amount |-> IF i <= high THEN 6000 ELSE 4000,
         timestamp |-> IF i > n - old THEN NowStart - 48 * Hour
                       ELSE NowStart - 30 * Hour]]
    \o (IF again /\ n > 0
        THEN <<[id |-> n + 1, sender |-> SenderNames[1], receiver |-> "A",
                amount |-> 4000, timestamp |-> NowStart - Hour]>>
        ELSE <<>>)

InitSmurfing ==
    /\ now = NowStart
    /\ seed = 0
    /\ twin = TwinOff
    /\ last = Idle
    /\ \E n \in 0..MaxSenders : \E high \in 0..n, old \in 0..n, again \in BOOLEAN :
          store = [InitialData EXCEPT !.transactions = SmurfingTxs(n, high, old, again)]

SpecSmurfing == InitSmurfing /\ [][DetectPatterns]_vars

\* number of inflows to the account
MaxInflows == 3

\* what follows an inflow of 1000: nothing, or an outflow this long after it
\* (at the same instant, just inside two hours, exactly two hours) ...
OutflowDelays == {0, 2 * Hour - 1, 2 * Hour}

\* ... of this amount (equal, 9.9% above, exactly 10% above)
OutflowAmounts == {1000, 1099, 1100}

NoOutflow == [delay |-> 0, amount |-> 0]

OutflowKinds == {NoOutflow} \cup [delay : OutflowDelays, amount : OutflowAmounts]

\* inflow i arrives gap after inflow i - 1; kinds[i] is the outflow that follows it
LayeringTxs(gap, kinds) ==
    Concat([i \in 1..Len(kinds) |->
        LET ts == NowStart - 5 * Day + (i - 1) * gap
        IN  <<[id |-> 2 * i - 1, sender |-> SenderNames[i], receiver |-> "A",
               amount |-> 1000, timestamp |-> ts]>>
            \o (IF kinds[i] = NoOutflow THEN <<>>
                ELSE <<[id |-> 2 * i, sender |-> "A", receiver |-> "B",
                        amount |-> kinds[i].amount,
                        timestamp |-> ts + kinds[i].delay]>>)])

InitLayering ==
    /\ now = NowStart
    /\ seed = 0
    /\ twin = TwinOff
    /\ last = Idle
    /\ \E n \in 0..MaxInflows : \E kinds \in [1..n -> OutflowKinds], gap \in {1, Day} :
          store = [InitialData EXCEPT !.transactions = LayeringTxs(gap, kinds)]

SpecLayering == InitLayering /\ [][DetectPatterns]_vars

\* number of outflows from the account
MaxOutflows == 3

\* amounts at and just outside the ends of the band for a threshold of 10000
StructuringAmounts == {8499, 8500, 9900, 9901}

\* two instants of one calendar date, and the first instant of the next
StructuringTimes == {NowStart - 2 * Day, NowStart - Day - 1, NowStart - Day}

\* small inflows that precede the outflows: none, or enough of them to bring
\* the account to ten transactions and more, where the 90th percentile is no
\* longer the largest amount
PaddingCounts == {0, 8}

StructuringTxs(padding, outflows) ==
    [i \in 1..padding |->
        [id |-> i, sender |-> SenderNames[i], receiver |-> "A",
         amount |-> 100, timestamp |-> NowStart - 3 * Day]]
    \o [i \in 1..Len(outflows) |->
        [id |-> padding + i, sender |-> "A", receiver |-> "B",
         amount |-> outflows[i].amount, timestamp |-> outflows[i].timestamp]]

InitStructuring ==
    /\ now = NowStart
    /\ seed = 0
    /\ twin = TwinOff
    /\ last = Idle
    /\ \E n \in 0..MaxOutflows, padding \in PaddingCounts :
       \E outflows \in [1..n -> [amount : StructuringAmounts, timestamp : StructuringTimes]] :
          store = [InitialData EXCEPT !.transactions = StructuringTxs(padding, outflows)]

SpecStructuring == InitStructuring /\ [][DetectPatterns]_vars

\* four outflows of 9200, 9400, 9500 and 9300, in any order of arrival, on
\* three calendar dates
FourOutflows == {9200, 9400, 9500, 9300}

InitFourOutflows ==
    /\ now = NowStart
    /\ seed = 0
    /\ twin = TwinOff
    /\ last = Idle
    /\ \E amounts \in [1..4 -> FourOutflows], dates \in [1..4 -> 0..2] :
          /\ Range(amounts) = FourOutflows
          /\ Range(dates) = 0..2
          /\ store = [InitialData EXCEPT !.transactions =
                         [i \in 1..4 |->
                             [id |-> i, sender |-> "A", receiver |-> "B",
                              amount |-> amounts[i],
                              timestamp |-> NowStart - 3 * Day + dates[i] * Day]]]

SpecFourOutflows == InitFourOutflows /\ [][DetectPatterns]_vars

\* number of inflows of the last 7 days
MaxRecentInflows == 2

\* days between the account's first transaction and now
MismatchAges == {6, 7, 20, 21, 22, 35, 36}

MismatchAmounts == {5, 7, 9}

\* the account's first transaction (an outflow, or an inflow of 5) age days
\* back; an inflow of older stamped exactly 7 days back, outside the window,
\* unless older is 0; and the recent inflows, one hour back
MismatchTxs(age, firstIn, older, recent) ==
    <<[id |-> 1, sender |-> IF firstIn THEN "B" ELSE "A",
       receiver |-> IF firstIn THEN "A" ELSE "B",
       amount |-> 5, timestamp |-> NowStart - age * Day]>>
    \o (IF older = 0 THEN <<>>
        ELSE <<[id |-> 2, sender |-> "B", receiver |-> "A", amount |-> older,
                timestamp |-> NowStart - 7 * Day]>>)
    \o [i \in 1..Len(recent) |->
           [id |-> 2 + i, sender |-> "B", receiver |-> "A", amount |-> recent[i],
            timestamp |-> NowStart - Hour]]

InitMismatch ==
    /\ now = NowStart
    /\ seed = 0
    /\ twin = TwinOff
    /\ last = Idle
    /\ \E age \in MismatchAges, firstIn \in BOOLEAN, older \in {0, 5},
          n \in 0..MaxRecentInflows :
          \E recent \in [1..n -> MismatchAmounts] :
              store = [InitialData EXCEPT
                          !.transactions = MismatchTxs(age, firstIn, older, recent)]

SpecMismatch == InitMismatch /\ [][DetectPatterns]_vars

(* ------------------------- suspicious transactions --------------------- *)
\* number of transactions between A and B
MaxSimilarTx == 3

\* amounts 5% apart; the later one is within 5% of the earlier one's amount
\* taken relative to itself, not the other way round
SimilarAmounts == {1000, 1050}

\* instants around a transaction two days back: more than 24 hours before it,
\* exactly 24 hours before it, its own, and one tick after it
SimilarTimes ==
    {NowStart - 3 * Day - 1, NowStart - 3 * Day, NowStart - 2 * Day, NowStart - 2 * Day + 1}

InitSimilar ==
    /\ now = NowStart
    /\ seed = 0
    /\ twin = TwinOff
    /\ last = Idle
    /\ \E n \in 1..MaxSimilarTx :
       \E txs \in [1..n -> [amount : SimilarAmounts, timestamp : SimilarTimes]] :
          store = [InitialData EXCEPT !.transactions =
                      [i \in 1..n |->
                          [id |-> i, sender |-> "A", receiver |-> "B",
                           amount |-> txs[i].amount, timestamp |-> txs[i].timestamp]]]

SpecSimilar == InitSimilar /\ [][Evaluate]_vars

(* ------------------------- baseline deviations ------------------------- *)
\* the deviations findSuspiciousTransactions attaches to its
\* baseline_deviation entries, one record for each outflow of the account
baselineDeviations(accountId, transactions, baseline) ==
    LET outflows == Outflows(accountId, AccountTxs(accountId, transactions))
    IN  [i \in 1..Len(outflows) |->
            [txId |-> outflows[i].id,
             deviations |-> checkDeviation(outflows[i], baseline).deviations]]

\* evaluateAccount, with the deviations of the account's outflows noted
EvaluateDeviations ==
    /\ last.op = "none"
    /\ \E accountId \in Accounts :
          \E out \in {evaluateAccount(Ctx(store, seed), now, accountId)} :
              /\ Commit(out.ctx)
              /\ last' = [op |-> "evaluate", accountId |-> accountId,
                          evaluation |-> out.evaluation,
                          deviations |->
                              baselineDeviations(accountId, store.transactions,
                                  calculateBaseline(accountId, store.transactions, now))]
    /\ UNCHANGED <<now, twin>>

\* number of transactions between A and B
MaxDeviationTx == 2

\* nothing, a typical amount and one far above it
DeviationAmounts == {0, 100, 1000}

\* ten days back, within the last day, the clock reading, and a day ahead
DeviationTimes == {NowStart - LongStep, NowStart - 1, NowStart, NowStart + Day}

InitDeviation ==
    /\ now = NowStart
    /\ seed = 0
    /\ twin = TwinOff
    /\ last = Idle
    /\ \E n \in 1..MaxDeviationTx :
       \E txs \in [1..n -> [sender : Accounts, amount : DeviationAmounts,
                            timestamp : DeviationTimes]] :
          store = [InitialData EXCEPT !.transactions =
                      [i \in 1..n |->
                          [id |-> i, sender |-> txs[i].sender,
                           receiver |-> IF txs[i].sender = "A" THEN "B" ELSE "A",
                           amount |-> txs[i].amount, timestamp |-> txs[i].timestamp]]]

SpecDeviation == InitDeviation /\ [][EvaluateDeviations]_vars

(* --------------------------- network analysis -------------------------- *)
\* transfers of one size among four accounts, all stamped with the clock
\* reading: the triangle A -> B -> C -> A, a way round through D, and A -> D
NetworkPool ==
    <<[id |-> 1, sender |-> "A", receiver |-> "B", amount |-> 1000, timestamp |-> NowStart],
      [id |-> 2, sender |-> "B", receiver |-> "C", amount |-> 1000, timestamp |-> NowStart],
      [id |-> 3, sender |-> "C", receiver |-> "A", amount |-> 1000, timestamp |-> NowStart],
      [id |-> 4, sender |-> "A", receiver |-> "D", amount |-> 1000, timestamp |-> NowStart],
      [id |-> 5, sender |-> "C", receiver |-> "D", amount |-> 1000, timestamp |-> NowStart],
      [id |-> 6, sender |-> "D", receiver |-> "A", amount |-> 1000, timestamp |-> NowStart]>>

\* a record updateAccountEvidence wrote for a High Risk account
FlaggedEvidence ==
    [score |-> 60, riskLevel |-> "High Risk", suspiciousTransactions |-> 6,
     confirmedPatterns |-> 0, networkSignals |-> 0, isProbableML |-> FALSE,
     lastUpdated |-> NowStart]

\* a Store holding some of the pool's transfers, and at most one flagged account
InitNetwork ==
    /\ now = NowStart
    /\ seed = 0
    /\ twin = TwinOff
    /\ last = Idle
    /\ \E ids \in SUBSET (1..Len(NetworkPool)), flagged \in SUBSET {"B", "D"} :
          /\ Cardinality(flagged) <= 1
          /\ store = [InitialData EXCEPT
                 !.transactions = SelectSeq(NetworkPool, LAMBDA tx : tx.id \in ids),
                 !.accountEvidence = [a \in flagged |-> FlaggedEvidence]]

SpecNetwork == InitNetwork /\ [][Evaluate \/ EvaluateAndPersist]_vars



(* ----------------------------- the path search ------------------------- *)
\* the pool's transfers and a transfer from A to itself
TracePool ==
    NetworkPool
    \o <<[id |-> 7, sender |-> "A", receiver |-> "A", amount |-> 1000,
          timestamp |-> NowStart]>>

TraceStarts == {"A", "B", "C", "D"}

\* traceFundPaths(startAccount, transactions, 5) entered: its call is pending
InitTrace ==
    /\ now = NowStart
    /\ seed = 0
    /\ twin = TwinOff
    /\ \E ids \in SUBSET (1..Len(TracePool)), startAccount \in TraceStarts :
          /\ store = [InitialData EXCEPT
                 !.transactions = SelectSeq(TracePool, LAMBDA tx : tx.id \in ids)]
          /\ last = [op |-> "trace", startAccount |-> startAccount,
                     pending |-> <<[currentPath |-> <<>>, visited |-> {}]>>,
                     paths |-> <<>>]

\* the pending call on top runs: it returns its paths, or the calls it makes
\* become pending in its place, the first of them on top
TraceCall ==
    /\ last.op = "trace"
    /\ last.pending # <<>>
    /\ \E r \in {TraceFrame(last.startAccount, store.transactions, MaxDepth,
                            Head(last.pending))} :
          last' = [last EXCEPT !.pending = r.calls \o Tail(@),
                               !.paths = @ \o r.returned]
    /\ UNCHANGED <<now, store, seed, twin>>

\* a call runs to its end once entered
SpecTrace == InitTrace /\ [][TraceCall]_vars /\ WF_vars(TraceCall)

(* ------------------------------ properties ----------------------------- *)
Evidence == {store.accountEvidence[a] : a \in DOMAIN store.accountEvidence}

Alerts == Range(store.alerts)

ValidTransaction(tx) == tx.sender # tx.receiver /\ tx.amount > 0

RecentAlerts(accountId) ==
    {i \in 1..Len(store.alerts) :
        /\ store.alerts[i].accountId = accountId
        /\ store.alerts[i].timestamp > now - Hour}

\* C1: every persisted AccountEvidence record carries the risk level of its
\* score's band: Normal [0,30), Suspicious [30,60), High Risk [60,80),
\* Probable Money Laundering [80,100]
EvidenceInBand ==
    \A e \in Evidence :
        /\ e.score \in 0..100
        /\ e.riskLevel = "Normal" <=> e.score \in 0..29
        /\ e.riskLevel = "Suspicious" <=> e.score \in 30..59
        /\ e.riskLevel = "High Risk" <=> e.score \in 60..79
        /\ e.riskLevel = "Probable Money Laundering" <=> e.score \in 80..100

\* a call has persisted a record whose score sits on the lower edge of a band
EvidenceOnBandEdge ==
    /\ last.op \in {"process", "evaluateAndPersist", "fullAnalysis"}
    /\ \E e \in Evidence : e.score \in {30, 60, 80}

\* C2: every alert in the Store has score >= 30 and the severity its risk
\* level maps to, and every generateAlert call handed a score below 30
\* returned null
AlertsAboveThreshold ==
    /\ \A A \in Alerts :
          /\ A.score >= 30
          /\ \/ A.riskLevel = "Suspicious" /\ A.severity = "medium"
             \/ A.riskLevel = "High Risk" /\ A.severity = "high"
             \/ A.riskLevel = "Probable Money Laundering" /\ A.severity = "critical"
    /\ last.op \in {"process", "evaluateAndPersist", "fullAnalysis"} =>
          \A i \in 1..Len(last.generated) :
              last.generated[i].score < 30 => last.generated[i].isNull

\* the Store holds an alert and the last call's generateAlert returned null
\* for a score below the threshold
AlertStoredAndNullGenerated ==
    /\ Alerts # {}
    /\ last.op \in {"process", "fullAnalysis"}
    /\ \E i \in 1..Len(last.generated) :
          last.generated[i].score < 30 /\ last.generated[i].isNull

\* C3: at every clock reading the Store holds at most one alert per account
\* newer than one hour before the reading
AtMostOneRecentAlert ==
    \A a \in Accounts : Cardinality(RecentAlerts(a)) <= 1

\* a process call generated an alert for an account and did not append it,
\* because an alert stamped earlier in the same hour was there
AlertSuppressed ==
    /\ last.op = "process"
    /\ \E i \in 1..Len(last.result.accounts) :
          /\ last.result.accounts[i].alertGenerated
          /\ ~last.result.accounts[i].appended
          /\ \E j \in RecentAlerts(last.result.accounts[i].accountId) :
                store.alerts[j].timestamp < now

\* C4: after process(T), every account of T reported with score >= 30 has an
\* alert in the Store stamped within the last hour
ReportedAccountsAlerted ==
    last.op = "process" =>
        \A i \in 1..Len(last.result.accounts) :
            last.result.accounts[i].score >= 30 =>
                RecentAlerts(last.result.accounts[i].accountId) # {}

\* the same, for a Store whose transactions all have sender # receiver and
\* amount > 0
ReportedAccountsAlertedWhenValid ==
    (\A tx \in Range(store.transactions) : ValidTransaction(tx)) =>
        ReportedAccountsAlerted

\* C5: every transaction in the Store has sender # receiver and amount > 0
StoredTransactionsValid ==
    \A tx \in Range(store.transactions) : ValidTransaction(tx)

\* C6: every evidence or alert write of a process(T) call was made with T in
\* the Store's transaction list
TransactionStoredBeforeWrites ==
    last.op = "process" =>
        \A i \in 1..Len(last.writes) :
            last.writes[i].what \in {"evidence", "alert"} =>
                last.tx.id \in last.writes[i].txIds

\* a process call wrote an evidence record and an alert
EvidenceAndAlertWritten ==
    /\ last.op = "process"
    /\ \E i \in 1..Len(last.writes) : last.writes[i].what = "evidence"
    /\ \E i \in 1..Len(last.writes) : last.writes[i].what = "alert"

\* C7: evaluate(a) leaves the Store as it was, and an evaluate(a) directly
\* after an evaluate(a), at the same clock reading, returns the same Evaluation
EvaluateIsReadOnly ==
    [][last'.op = "evaluate" =>
          /\ store' = store
          /\ (last.op = "evaluate" /\ last.accountId = last'.accountId) =>
                 last'.evaluation = last.evaluation]_vars

\* evaluate returned an evaluation that rests on persisted evidence: a link
\* to a flagged account
EvaluatedWithFlaggedLink ==
    /\ last.op = "evaluate"
    /\ \E i \in 1..Len(last.evaluation.details.networkSignals) :
          last.evaluation.details.networkSignals[i].type = "flagged_links"

\* C8: after a full analysis of valid transactions, evaluate(a) of every
\* account of the transactions gives the score, risk level, counts and
\* probable-ML flag of the record evaluateAllAccounts persisted for it
EvaluateAllIsFixpoint ==
    (last.op = "fullAnalysis" /\ StoredTransactionsValid) =>
        \A a \in Range(AccountsOf(store.transactions)) :
            \A ev \in {evaluateAccount(Ctx(store, seed), now, a).evaluation} :
                /\ store.accountEvidence[a].score = ev.score
                /\ store.accountEvidence[a].riskLevel = ev.riskLevel
                /\ store.accountEvidence[a].suspiciousTransactions
                       = ev.evidence.suspiciousTransactions
                /\ store.accountEvidence[a].confirmedPatterns = ev.evidence.confirmedPatterns
                /\ store.accountEvidence[a].networkSignals = ev.evidence.networkSignals
                /\ store.accountEvidence[a].isProbableML = ev.evidence.isProbableML

\* C9, as stated: two runs fed the same process calls at the same clock
\* readings from equal Stores hold identical Stores, ids included
RunsIdentical == twin.on => twin.store = store

WithoutAuditIds(st) ==
    [st EXCEPT !.auditLogs = [i \in 1..Len(st.auditLogs) |->
                                 [st.auditLogs[i] EXCEPT !.id = 0]]]

\* C9, amended: the two runs hold identical transactions, account evidence
\* and alerts, and audit logs identical but for the ids of the audit records
RunsIdenticalButAuditIds ==
    twin.on => WithoutAuditIds(twin.store) = WithoutAuditIds(store)

\* both runs have processed transactions, raised an alert, and logged audit
\* records under different ids
RunsDifferInAuditIds ==
    /\ twin.on
    /\ last.op = "process"
    /\ Alerts # {}
    /\ twin.store.auditLogs # store.auditLogs

\* C10: the score is the weighted sum 10 s + 20 p + 30 n (+ 20 when probable
\* ML), capped at 100, and so an integer in 0..100
ScoreIsCappedSum ==
    last.op = "scored" =>
        \A raw \in {10 * last.suspicious + 20 * last.patterns + 30 * last.networkSignals
                       + (IF last.isProbableML THEN 20 ELSE 0)} :
            /\ last.score \in 0..100
            /\ raw <= 100 => last.score = raw
            /\ raw > 100 => last.score = 100

\* calculateScore was applied to counts whose weighted sum exceeds the cap
ScoreCapped ==
    /\ last.op = "scored"
    /\ 10 * last.suspicious + 20 * last.patterns + 30 * last.networkSignals > 100
    /\ last.score = 100

\* C11: raising one of the three counts by one, the others equal, never
\* lowers the score (isProbableML derived from the number of network signals)
ScoreMonotone ==
    last.op = "compared" => last.scoreRaised >= last.score

\* the second network signal was added: the score rose by its weight and the
\* probable-ML bonus
SecondSignalRaisesScore ==
    /\ last.op = "compared"
    /\ last.raised = "networkSignals"
    /\ last.networkSignals = 1
    /\ last.scoreRaised = last.score + 50

NetworkSignalTypes(evaluation) ==
    {evaluation.details.networkSignals[i].type :
        i \in 1..Len(evaluation.details.networkSignals)}

\* C12: an evaluation is flagged probable ML exactly when the analysis emitted
\* two or more signals; with two or more signals it holds the +20 bonus, a
\* score of at least 80 and the risk level Probable Money Laundering, and an
\* alert generated for it has severity critical
TwoSignalsProbableML ==
    /\ last.op = "evaluate" =>
          /\ last.evaluation.evidence.networkSignals
                 = Len(last.evaluation.details.networkSignals)
          /\ last.evaluation.evidence.isProbableML
                 <=> Len(last.evaluation.details.networkSignals) >= 2
    /\ (/\ last.op = "evaluate"
        /\ Len(last.evaluation.details.networkSignals) >= 2) =>
                /\ last.evaluation.score >= 80
                /\ \/ last.evaluation.score = 100
                   \/ last.evaluation.score
                          = 10 * last.evaluation.evidence.suspiciousTransactions
                            + 20 * last.evaluation.evidence.confirmedPatterns
                            + 30 * last.evaluation.evidence.networkSignals + 20
                /\ last.evaluation.riskLevel = "Probable Money Laundering"
    /\ (/\ last.op = "evaluateAndPersist"
        /\ store.accountEvidence[last.accountId].networkSignals >= 2) =>
              /\ store.accountEvidence[last.accountId].isProbableML
              /\ ~last.alert.isNull
              /\ last.alert.severity = "critical"

\* an account on the triangle with a link to a flagged account was evaluated
\* and persisted: two signals, and a critical alert
TwoSignalsAlerted ==
    /\ last.op = "evaluateAndPersist"
    /\ store.accountEvidence[last.accountId].networkSignals = 2
    /\ ~last.alert.isNull
    /\ last.alert.severity = "critical"
    /\ last.alert.score < 100

\* the chains of k distinct transactions from the account back to it, each
\* sent by the receiver of the one before
Chains(accountId, transactions, k) ==
    {f \in [1..k -> 1..Len(transactions)] :
        /\ \A i, j \in 1..k : i # j => f[i] # f[j]
        /\ transactions[f[1]].sender = accountId
        /\ transactions[f[k]].receiver = accountId
        /\ \A i \in 1..(k - 1) :
              transactions[f[i + 1]].sender = transactions[f[i]].receiver}

HasChain(accountId, transactions) ==
    \E k \in 3..5 : k <= Len(transactions) /\ Chains(accountId, transactions, k) # {}

\* C14: evaluating an account from which a chain of 3 to 5 distinct
\* transactions leads back to it reports a circular_flow signal
ChainGivesCircularFlow ==
    (last.op = "evaluate" /\ HasChain(last.accountId, store.transactions)) =>
        "circular_flow" \in NetworkSignalTypes(last.evaluation)

\* the same, for an account whose every outgoing transaction lies on a chain
\* back to it
ChainGivesCircularFlowWhenClosed ==
    (/\ last.op = "evaluate"
     /\ HasChain(last.accountId, store.transactions)
     /\ \A tx \in Range(store.transactions) :
           tx.sender = last.accountId =>
               \E k \in 3..5 : \E f \in Chains(last.accountId, store.transactions, k) :
                   \E i \in 1..k : store.transactions[f[i]].id = tx.id) =>
        "circular_flow" \in NetworkSignalTypes(last.evaluation)

\* the triangle A -> B -> C -> A alone is reported with path length 3
TriangleReported ==
    (/\ last.op = "evaluate"
     /\ last.accountId = "A"
     /\ {tx.id : tx \in Range(store.transactions)} = {1, 2, 3}) =>
        \E i \in 1..Len(last.evaluation.details.networkSignals) :
            /\ last.evaluation.details.networkSignals[i].type = "circular_flow"
            /\ last.evaluation.details.networkSignals[i].evidence.pathLength = 3

FirstTimestamp(accountId) ==
    CHOOSE t \in {tx.timestamp : tx \in Range(AccountTxs(accountId, store.transactions))} :
        \A tx \in Range(AccountTxs(accountId, store.transactions)) : t <= tx.timestamp

\* C13: the baseline of an account touched by a transaction has account age
\* max(1, floor((now - first timestamp) / day)), which is at least 1
AccountAgeAtLeastOne ==
    last.op = "baseline" =>
        /\ last.baseline.accountAge >= 1
        /\ (now - FirstTimestamp(last.accountId)) \div Day >= 1 =>
               last.baseline.accountAge = (now - FirstTimestamp(last.accountId)) \div Day
        /\ (now - FirstTimestamp(last.accountId)) \div Day < 1 =>
               last.baseline.accountAge = 1

\* the same, for an account whose first transaction is not stamped later than
\* the clock reading
AccountAgeAtLeastOneWhenPast ==
    (last.op = "baseline" /\ FirstTimestamp(last.accountId) <= now) =>
        AccountAgeAtLeastOne

PatternsOfType(type) ==
    {last.patterns[i] : i \in {j \in 1..Len(last.patterns) : last.patterns[j].type = type}}

\* the inflows to the account stamped within the last 48 hours
RecentInflows(accountId) ==
    SelectSeq(store.transactions, LAMBDA tx :
        tx.receiver = accountId /\ tx.timestamp > now - 48 * Hour)

\* the inflows whose amount is strictly within 20% of the inflows' mean
NearMean(inflows) ==
    SelectSeq(inflows, LAMBDA tx :
        5 * Abs(tx.amount * Len(inflows) - SumSeq(MapAmount(inflows)))
            < SumSeq(MapAmount(inflows)))

\* C15: smurfing (severity high) is emitted exactly when the inflows of the
\* last 48 hours come from 6 or more distinct senders, and its clustered flag
\* is set exactly when 60% or more of those inflows lie strictly within 20%
\* of their mean
SmurfingExactlyWhenSixSenders ==
    last.op = "patterns" =>
        /\ PatternsOfType("smurfing") # {}
              <=> Cardinality({tx.sender : tx \in Range(RecentInflows("A"))}) >= 6
        /\ \A p \in PatternsOfType("smurfing") :
              /\ p.severity = "high"
              /\ p.evidence.uniqueSenders
                     = Cardinality({tx.sender : tx \in Range(RecentInflows("A"))})
              /\ p.evidence.clustered
                     <=> 5 * Len(NearMean(RecentInflows("A")))
                             >= 3 * Len(RecentInflows("A"))

\* seven senders of equal amounts: smurfing with 7 unique senders, clustered
SevenEqualSenders ==
    /\ last.op = "patterns"
    /\ Len(store.transactions) = 7
    /\ \E p \in PatternsOfType("smurfing") :
          p.evidence.uniqueSenders = 7 /\ p.evidence.clustered

\* six senders, half of them 20% above and half 20% below the mean: smurfing,
\* not clustered
SixSendersOnTheEdge ==
    /\ last.op = "patterns"
    /\ Len(store.transactions) = 6
    /\ Len(NearMean(RecentInflows("A"))) = 0
    /\ \E p \in PatternsOfType("smurfing") : ~p.evidence.clustered

\* the inflows to the account that some outflow follows within two hours
\* (strictly later, strictly sooner) with an amount strictly within 10%
MatchedInflows(accountId) ==
    {I \in {tx \in Range(store.transactions) : tx.receiver = accountId} :
        \E O \in {tx \in Range(store.transactions) : tx.sender = accountId} :
            /\ I.timestamp < O.timestamp
            /\ O.timestamp < I.timestamp + 2 * Hour
            /\ 10 * Abs(O.amount - I.amount) < I.amount}

\* C16: layering is emitted exactly when 3 or more inflows each have a
\* matching outflow (later than the inflow, sooner than two hours after it,
\* amount within 10% of the inflow's); one outflow may match several inflows
LayeringExactlyWhenThreeMatched ==
    last.op = "patterns" =>
        (PatternsOfType("layering") # {} <=> Cardinality(MatchedInflows("A")) >= 3)

\* layering emitted where a single outflow matches three inflows
OneOutflowThreeCycles ==
    /\ last.op = "patterns"
    /\ Cardinality({tx \in Range(store.transactions) : tx.sender = "A"}) = 1
    /\ Cardinality(MatchedInflows("A")) = 3
    /\ \E p \in PatternsOfType("layering") : p.evidence.cycleCount = 3

\* three inflows, one of them followed by an outflow exactly 10% off: no layering
ThirdCycleBroken ==
    /\ last.op = "patterns"
    /\ Cardinality({tx \in Range(store.transactions) : tx.sender = "A"}) = 3
    /\ Cardinality(MatchedInflows("A")) = 2
    /\ PatternsOfType("layering") = {}

\* ten times T = max(1.1 * p90, 10000), p90 being the upper end of the
\* typical amount range of the account's baseline
TenT(accountId) ==
    Max(11 * calculateBaseline(accountId, store.transactions, now).typicalAmountRange[2],
        100000)

\* the outflows of the account with 0.85 * T <= amount <= 0.99 * T
InBand(accountId) ==
    {tx \in Range(store.transactions) :
        /\ tx.sender = accountId
        /\ 85 * TenT(accountId) <= 1000 * tx.amount
        /\ 1000 * tx.amount <= 99 * TenT(accountId)}

\* C17: structuring is emitted exactly when 3 or more outflows lie in the
\* inclusive band [0.85 T, 0.99 T], T = max(1.1 p90, 10000), and those
\* outflows fall on 2 or more calendar dates; the detection carries T
StructuringExactlyWhenThreeInBand ==
    last.op = "patterns" =>
        /\ PatternsOfType("structuring") # {}
              <=> /\ Cardinality(InBand("A")) >= 3
                  /\ Cardinality({tx.timestamp \div Day : tx \in InBand("A")}) >= 2
        /\ \A p \in PatternsOfType("structuring") :
              p.evidence.threshold10 = TenT("A")

\* structuring emitted from three outflows that sit on both ends of the band
StructuringOnBandEnds ==
    /\ last.op = "patterns"
    /\ PatternsOfType("structuring") # {}
    /\ Cardinality(InBand("A")) = 3
    /\ \E tx \in InBand("A") : 1000 * tx.amount = 99 * TenT("A")
    /\ \E tx \in InBand("A") : 1000 * tx.amount = 85 * TenT("A")

\* three outflows in the band, all on one calendar date: no structuring
StructuringOnOneDate ==
    /\ last.op = "patterns"
    /\ PatternsOfType("structuring") = {}
    /\ Cardinality(InBand("A")) = 3

\* C18 as stated: for four outflows of 9200, 9400, 9500 and 9300 over three
\* dates the baseline p90 is 0, so T = 10000 with band [8500, 9900], and
\* structuring is emitted with average 9350
FourOutflowsDefaultThreshold ==
    last.op = "patterns" =>
        /\ calculateBaseline("A", store.transactions, now).typicalAmountRange[2] = 0
        /\ \E p \in PatternsOfType("structuring") :
              /\ p.evidence.threshold10 = 10 * 10000
              /\ p.evidence.amountTotal = 9350 * p.evidence.transactionCount

\* C18 amended: for four outflows of 9200, 9400, 9500 and 9300 over three
\* dates the baseline p90 is 9500 (the fourth of four sorted amounts), so
\* T = 1.1 * 9500 = 10450 with band [8882.5, 10345.5], which holds all four,
\* and structuring is emitted with average 9350
FourOutflowsThresholdFromP90 ==
    last.op = "patterns" =>
        /\ calculateBaseline("A", store.transactions, now).typicalAmountRange[2] = 9500
        /\ \E p \in PatternsOfType("structuring") :
              /\ p.evidence.threshold10 = 104500
              /\ 85 * p.evidence.threshold10 = 1000 * 8882 + 500
              /\ 99 * p.evidence.threshold10 = 1000 * 10345 + 500
              /\ p.evidence.transactionCount = 4
              /\ p.evidence.daysSpread = 3
              /\ p.evidence.amountTotal = 9350 * 4

\* the four outflows analysed, structuring emitted
FourOutflowsStructuring ==
    /\ last.op = "patterns"
    /\ {tx.amount : tx \in Range(store.transactions)} = FourOutflows
    /\ \E p \in PatternsOfType("structuring") : p.evidence.transactionCount = 4

\* C19: when a Store write fails part-way through process(T), the Store after
\* the call equals the Store before the call
FailedProcessLeavesStoreUnchanged ==
    last.op = "processFailed" => store = last.before

\* what the code does: the writes made before the failing one stay stored
FailedProcessKeepsEarlierWrites ==
    last.op = "processFailed" =>
        /\ Len(last.writes) = last.failedWrite - 1
        /\ (last.failedWrite = 1 => store = last.before)
        /\ (last.failedWrite >= 2 =>
               /\ Len(store.transactions) = Len(last.before.transactions) + 1
               /\ store.transactions[1] = last.tx)
        /\ (last.failedWrite >= 3 =>
               Len(store.auditLogs) > Len(last.before.auditLogs))

\* the write of an alert fails: transaction, audit record and evidence are stored
AlertWriteFailed ==
    /\ last.op = "processFailed"
    /\ Len(store.alerts) = Len(last.before.alerts)
    /\ store.transactions # last.before.transactions
    /\ store.accountEvidence # last.before.accountEvidence
    /\ \E out \in {processTransaction(Ctx(last.before, 0), now, last.tx)} :
          /\ Len(out.ctx.writes) >= last.failedWrite
          /\ out.ctx.writes[last.failedWrite].what = "alert"

\* the audit records of appended alerts
AlertAudits == SelectSeq(store.auditLogs, LAMBDA log : log.action = "Alert Generated")

WritesOf(what) == {i \in 1..Len(last.writes) : last.writes[i].what = what}

\* C20: there are as many 'Alert Generated' audit records as alerts, after
\* any sequence of calls; and a process call writes one audit record for the
\* transaction and one for each alert it appends, none for a suppressed one
AlertAuditsMatchAlerts ==
    /\ Len(AlertAudits) = Len(store.alerts)
    /\ \A i \in 1..Len(store.alerts) :
          \E j \in 1..Len(AlertAudits) :
              /\ AlertAudits[j].details = store.alerts[i].accountId
              /\ AlertAudits[j].timestamp = store.alerts[i].timestamp
    /\ last.op = "process" =>
          Cardinality(WritesOf("audit")) = 1 + Cardinality(WritesOf("alert"))

\* a process call appended one account's alert and suppressed the other's
OneAppendedOneSuppressed ==
    /\ last.op = "process"
    /\ Cardinality(WritesOf("alert")) = 1
    /\ \E i \in 1..Len(last.result.accounts) :
          last.result.accounts[i].alertGenerated /\ ~last.result.accounts[i].appended

\* a full analysis generated an alert and suppressed it
FullAnalysisSuppressed ==
    /\ last.op = "fullAnalysis"
    /\ Len(store.alerts) >= 1
    /\ \E i \in 1..Len(last.generated) : ~last.generated[i].isNull
    /\ Len(store.alerts) = Len(AlertAudits)

\* the elements of a list never precede one stamped later
NewestFirst(list) ==
    \A i, j \in 1..Len(list) : i < j => list[i].timestamp >= list[j].timestamp

\* C21: each persisted list (transactions, alerts, audit log) is ordered
\* newest-first: what was inserted later stands at a lower index
ListsNewestFirst ==
    /\ \A i, j \in 1..Len(store.transactions) :
          i < j => store.transactions[i].id > store.transactions[j].id
    /\ NewestFirst(store.auditLogs)
    /\ NewestFirst(store.alerts)

\* what the code does: transactions and audit records are unshifted ...
TransactionsAndAuditNewestFirst ==
    /\ \A i, j \in 1..Len(store.transactions) :
          i < j => store.transactions[i].id > store.transactions[j].id
    /\ NewestFirst(store.auditLogs)

\* ... and alerts are pushed, so the alerts list is ordered oldest-first
AlertsOldestFirst ==
    \A i, j \in 1..Len(store.alerts) :
        i < j => store.alerts[i].timestamp <= store.alerts[j].timestamp

\* two alerts of different clock readings in the Store, the older one first
OlderAlertFirst ==
    /\ Len(store.alerts) >= 2
    /\ store.alerts[1].timestamp < store.alerts[2].timestamp

\* a path of at most 5 transactions, no id twice, chained from the start account
WellFormedPath(path, startAccount) ==
    /\ Len(path) <= 5
    /\ \A i, j \in 1..Len(path) : i # j => path[i].id # path[j].id
    /\ Len(path) > 0 => path[1].sender = startAccount
    /\ \A i \in 2..Len(path) : path[i].sender = path[i - 1].receiver

\* C22: the fund-path search terminates on every transaction set, cycles
\* included, and every path it returns has at most 5 transactions, uses no
\* transaction id twice, starts at the start account and is chained
TraceTerminatesWellFormed ==
    /\ <>(last.op = "trace" /\ last.pending = <<>>)
    /\ [](last.op = "trace" =>
             \A i \in 1..Len(last.paths) :
                 WellFormedPath(last.paths[i], last.startAccount))

\* the search is over and has returned a path of 5 transactions that comes
\* back to the start account twice
TraceWentRoundTwice ==
    /\ last.op = "trace"
    /\ last.pending = <<>>
    /\ \E i \in 1..Len(last.paths) :
          /\ Len(last.paths[i]) = 5
          /\ Cardinality({k \in 1..5 : last.paths[i][k].receiver = last.startAccount}) >= 2

\* the calls taken one by one return what the recursive function returns
TraceAgrees ==
    (last.op = "trace" /\ last.pending = <<>>) =>
        last.paths = traceFundPaths(last.startAccount, store.transactions, MaxDepth, <<>>, {})

\* the accounts whose persisted evidence is High Risk or Probable Money Laundering
FlaggedNow ==
    {x \in DOMAIN store.accountEvidence :
        store.accountEvidence[x].riskLevel \in {"High Risk", "Probable Money Laundering"}}

\* the stored transactions with the account on one side and a flagged account
\* on the other, each with that other side
LinksOf(a) ==
    {<<tx.id, tx.receiver>> : tx \in {t \in Range(store.transactions) :
                                          t.sender = a /\ t.receiver \in FlaggedNow}}
    \cup {<<tx.id, tx.sender>> : tx \in {t \in Range(store.transactions) :
                                          t.receiver = a /\ t.sender \in FlaggedNow}}

FlaggedLinkSignals ==
    {s \in Range(last.evaluation.details.networkSignals) : s.type = "flagged_links"}

\* C23: the analysis of an account emits flagged_links (severity high) exactly
\* when a transaction links it to an account whose persisted evidence is High
\* Risk or Probable Money Laundering; the signal lists each such counterparty
\* once and has one entry per connecting transaction
FlaggedLinksExactlyWhenLinked ==
    last.op = "evaluate" =>
        /\ FlaggedLinkSignals # {} <=> LinksOf(last.accountId) # {}
        /\ \A s \in FlaggedLinkSignals :
              /\ s.severity = "high"
              /\ s.evidence.linkedAccounts = {l[2] : l \in LinksOf(last.accountId)}
              /\ Len(s.evidence.connections) = Cardinality(LinksOf(last.accountId))
              /\ {<<c.txId, c.counterparty>> : c \in Range(s.evidence.connections)}
                     = LinksOf(last.accountId)

\* two transactions link the account to one flagged account, one in each direction
TwoLinksOneCounterparty ==
    /\ last.op = "evaluate"
    /\ \E s \in FlaggedLinkSignals :
          /\ Len(s.evidence.connections) = 2
          /\ Cardinality(s.evidence.linkedAccounts) = 1
          /\ \E tx \in Range(store.transactions) :
                tx.receiver = last.accountId /\ tx.sender \in s.evidence.linkedAccounts

\* an account with evidence below High Risk on the other side: no signal
LinkedToUnflagged ==
    /\ last.op = "evaluate"
    /\ FlaggedLinkSignals = {}
    /\ \E tx \in Range(store.transactions) :
          /\ tx.sender = last.accountId
          /\ tx.receiver \in DOMAIN store.accountEvidence

\* the sum of the inflows to the account stamped within the last 7 days
RecentInflowSum(a) ==
    SumSeq(MapAmount(SelectSeq(store.transactions, LAMBDA tx :
        tx.receiver = a /\ tx.timestamp > now - 7 * Day)))

BaselineNow(a) == calculateBaseline(a, store.transactions, now)

\* r > k for r = (sum of the last 7 days' inflows / 7) / avg_daily_inflow,
\* avg_daily_inflow = total inflow / account age, each quotient a double
RExceeds(a, k) ==
    /\ RecentInflowSum(a) > 0
    /\ DoubleGT(DoubleDiv(DoubleDiv(ToDouble(RecentInflowSum(a)), ToDouble(7)),
                          DoubleDiv(ToDouble(BaselineNow(a).totalInflow),
                                    ToDouble(BaselineNow(a).accountAge))),
                ToDouble(k))

\* C24: income mismatch is emitted exactly when the baseline's account age is
\* 7 days or more, its average daily inflow is positive and r > 3; its
\* severity is high when r > 5 and medium otherwise; with an average daily
\* inflow of 0 nothing is emitted
MismatchExactlyWhenRatioAboveThree ==
    last.op = "patterns" =>
        /\ PatternsOfType("income_mismatch") # {}
              <=> /\ BaselineNow("A").accountAge >= 7
                  /\ BaselineNow("A").totalInflow > 0
                  /\ RExceeds("A", 3)
        /\ \A p \in PatternsOfType("income_mismatch") :
              p.severity = IF RExceeds("A", 5) THEN "high" ELSE "medium"
        /\ BaselineNow("A").totalInflow = 0 => PatternsOfType("income_mismatch") = {}

\* a mismatch of medium severity: r between 3 and 5
MismatchMedium ==
    /\ last.op = "patterns"
    /\ BaselineNow("A").accountAge = 22
    /\ \E p \in PatternsOfType("income_mismatch") : p.severity = "medium"

\* an account of 36 days with no inflow at all: nothing emitted
NoInflowNoMismatch ==
    /\ last.op = "patterns"
    /\ BaselineNow("A").accountAge = 36
    /\ BaselineNow("A").totalInflow = 0
    /\ PatternsOfType("income_mismatch") = {}

AllAmountsPositive == \A tx \in Range(store.transactions) : tx.amount > 0

\* C30: with all amounts positive, income mismatch is never emitted for an
\* account whose age is 21 days or less
NoMismatchUpToThreeWeeks ==
    (/\ last.op = "patterns"
     /\ AllAmountsPositive
     /\ BaselineNow("A").accountAge <= 21)
        => PatternsOfType("income_mismatch") = {}

\* what the code does: up to 21 days a mismatch is emitted only where the
\* exact ratio is 3 and the doubles round it above 3 ...
MismatchUpToThreeWeeksOnlyByRounding ==
    (/\ last.op = "patterns"
     /\ AllAmountsPositive
     /\ BaselineNow("A").accountAge <= 21
     /\ PatternsOfType("income_mismatch") # {})
        => /\ BaselineNow("A").accountAge = 21
           /\ RecentInflowSum("A") = BaselineNow("A").totalInflow
           /\ \A p \in PatternsOfType("income_mismatch") : p.severity = "medium"

\* ... as for an account of 21 days whose only inflow is 5, in the last week:
\* (5 / 7) / (5 / 21) is 3.0000000000000004
MismatchAtThreeWeeks ==
    /\ last.op = "patterns"
    /\ AllAmountsPositive
    /\ BaselineNow("A").accountAge = 21
    /\ RecentInflowSum("A") = 5
    /\ BaselineNow("A").totalInflow = 5
    /\ PatternsOfType("income_mismatch") # {}

\* the same account with an only inflow of 7: (7 / 7) / (7 / 21) is 3, nothing emitted
NoMismatchAtThreeWeeks ==
    /\ last.op = "patterns"
    /\ BaselineNow("A").accountAge = 21
    /\ RecentInflowSum("A") = 7
    /\ BaselineNow("A").totalInflow = 7
    /\ PatternsOfType("income_mismatch") = {}

\* the transactions touching the account that are similar in value to tx
\* (amount within 5% of tx's, strictly) and stamped 24 hours before tx or later
SimilarSince(a, tx) ==
    {o \in Range(store.transactions) :
        /\ (o.sender = a \/ o.receiver = a)
        /\ o.timestamp >= tx.timestamp - 24 * Hour
        /\ 20 * Abs(o.amount - tx.amount) < tx.amount}

\* those of them inside the 24 hours before tx: not stamped later than tx
SimilarBefore(a, tx) == {o \in SimilarSince(a, tx) : o.timestamp <= tx.timestamp}

SimilarEntries ==
    {e.txId : e \in {s \in Range(last.evaluation.details.suspiciousTxs) :
                        s.type = "similar_value_repeat"}}

\* C25: a similar_value_repeat entry is added for a transaction touching the
\* account exactly when 3 or more transactions touching it (tx included) are
\* stamped in [tx.ts - 24h, tx.ts] with an amount within 5% of tx's;
\* transactions later than tx do not count
SimilarRepeatWithinDayBefore ==
    last.op = "evaluate" =>
        \A tx \in Range(store.transactions) :
            (tx.sender = last.accountId \/ tx.receiver = last.accountId) =>
                (tx.id \in SimilarEntries
                    <=> Cardinality(SimilarBefore(last.accountId, tx)) >= 3)

\* what the code does: the window has no upper end, later transactions count
SimilarRepeatSinceDayBefore ==
    last.op = "evaluate" =>
        \A tx \in Range(store.transactions) :
            (tx.sender = last.accountId \/ tx.receiver = last.accountId) =>
                (tx.id \in SimilarEntries
                    <=> Cardinality(SimilarSince(last.accountId, tx)) >= 3)

\* an entry for a transaction that has fewer than 3 similar ones up to its
\* own instant: the later ones were counted
LaterTransactionsCounted ==
    /\ last.op = "evaluate"
    /\ \E tx \in Range(store.transactions) :
          /\ tx.id \in SimilarEntries
          /\ Cardinality(SimilarBefore(last.accountId, tx)) < 3

\* C26: in the result of process(T), alert_generated is true for an account
\* only if the call appended a new alert for that account; for a suppressed
\* duplicate it is false
AlertGeneratedOnlyWhenAppended ==
    last.op = "process" =>
        /\ \A i \in 1..Len(last.result.accounts) :
              last.result.accounts[i].alertGenerated => last.result.accounts[i].appended
        /\ Cardinality({i \in 1..Len(last.result.accounts) :
                           last.result.accounts[i].alertGenerated})
               <= Cardinality(WritesOf("alert"))

\* what the code does: alertGenerated is set whenever createAndSaveAlert
\* returns an alert, which it does whether it appended the alert or not
AlertGeneratedWhenReturned ==
    last.op = "process" =>
        /\ \A i \in 1..Len(last.result.accounts) :
              /\ last.result.accounts[i].alertGenerated
                    => last.result.accounts[i].score >= 30
              /\ last.result.accounts[i].appended => last.result.accounts[i].alertGenerated
        /\ Cardinality({i \in 1..Len(last.result.accounts) :
                           last.result.accounts[i].alertGenerated})
               = Cardinality({i \in 1..Len(last.generated) : ~last.generated[i].isNull})

\* a process call that wrote no alert reports alertGenerated for an account
ReportedGeneratedNothingWritten ==
    /\ last.op = "process"
    /\ WritesOf("alert") = {}
    /\ \E i \in 1..Len(last.result.accounts) : last.result.accounts[i].alertGenerated

\* C27: no two persisted alerts share an id
AlertIdsUnique ==
    \A i, j \in 1..Len(store.alerts) :
        i # j => store.alerts[i].id # store.alerts[j].id

\* what the code does: the id is 'ALERT-' + Date.now(), so the alerts of one
\* clock reading share it; the 1h window keeps the ids of one account apart
AlertIdsUniquePerAccount ==
    \A i, j \in 1..Len(store.alerts) :
        (i # j /\ store.alerts[i].id = store.alerts[j].id)
            => /\ store.alerts[i].accountId # store.alerts[j].accountId
               /\ store.alerts[i].timestamp = store.alerts[j].timestamp

\* one process call appended an alert for each of its two accounts, both
\* with the same id
TwoAlertsOneId ==
    /\ last.op = "process"
    /\ Cardinality(WritesOf("alert")) = 2
    /\ \E i, j \in 1..Len(store.alerts) :
          /\ i # j
          /\ store.alerts[i].id = store.alerts[j].id
          /\ store.alerts[i].timestamp = now

\* the alerts a step appended, as positions in the Store after the step
AppendedAlerts == (Len(store.alerts) + 1)..Len(store'.alerts)

\* the alert appended for the i-th account of a process result agrees with
\* the evidence persisted in that pass
PassAgrees(i) ==
    \E j \in AppendedAlerts :
        /\ store'.alerts[j].accountId = last'.result.accounts[i].accountId
        /\ store'.alerts[j].score = last'.result.accounts[i].score
        /\ store'.alerts[j].riskLevel = last'.result.accounts[i].riskLevel

\* the alert at position j agrees with the evidence record of its account
AgreesWithEvidence(j) ==
    /\ store'.alerts[j].score = store'.accountEvidence[store'.alerts[j].accountId].score
    /\ store'.alerts[j].riskLevel
           = store'.accountEvidence[store'.alerts[j].accountId].riskLevel

SelfLinked(a, transactions) ==
    \E i \in 1..Len(transactions) :
        transactions[i].sender = a /\ transactions[i].receiver = a

\* C28: an alert appended by process or by the full analysis has the score
\* and the risk level of the evidence record persisted for its account at
\* that moment
AppendedAlertMatchesEvidence ==
    [][/\ last'.op = "process" =>
              \A i \in 1..Len(last'.result.accounts) :
                  last'.result.accounts[i].appended => PassAgrees(i)
       /\ last'.op = "fullAnalysis" => \A j \in AppendedAlerts : AgreesWithEvidence(j)]_vars

\* what the code guarantees in process: the alert agrees with the evidence
\* when the account has no transaction with itself, so that persisting its
\* evidence changes nothing its re-evaluation reads
AppendedAlertMatchesUnlessSelfLinked ==
    [][last'.op = "process" =>
           \A i \in 1..Len(last'.result.accounts) :
               (/\ last'.result.accounts[i].appended
                /\ ~SelfLinked(last'.result.accounts[i].accountId, store'.transactions))
                   => PassAgrees(i)]_vars

\* a process call appended an alert for an account that has a transaction
\* with itself
SelfLinkedAlertAppended ==
    /\ last.op = "process"
    /\ \E i \in 1..Len(last.result.accounts) :
          /\ last.result.accounts[i].appended
          /\ SelfLinked(last.result.accounts[i].accountId, store.transactions)

\* every stored transaction has a positive amount and is not stamped later
\* than the clock reading
AllPositiveAndPast ==
    \A i \in 1..Len(store.transactions) :
        store.transactions[i].amount > 0 /\ store.transactions[i].timestamp <= now

FirstTransactionDeviations ==
    {i \in 1..Len(last.deviations) :
        \E k \in 1..Len(last.deviations[i].deviations) :
            last.deviations[i].deviations[k].type = "first_transaction"}

FirstTransactionWhenAhead ==
    /\ last.op = "evaluate"
    /\ FirstTransactionDeviations # {}

====
